---------------------------- MODULE Spec2Model ----------------------------
(***************************************************************************)
(* Terminal channel and session concurrency engine of grassrootsbbs.       *)
(*                                                                         *)
(* The server runs under gevent (src/src/factory.py:290): every SocketIO   *)
(* handler and every background task is a greenlet, and control passes     *)
(* from one greenlet to another only where the running one blocks: a       *)
(* database call, a contended lock, Event.wait, socketio.sleep.  A handler *)
(* is therefore cut into one action per stretch of code between two such   *)
(* points.  WebChannel.recv is cut statement by statement, which allows    *)
(* every interleaving a preemptive scheduler would allow as well.          *)
(*                                                                         *)
(* The specifications share the variables and the actions:                 *)
(*   Spec      the registry: NumSids connections arriving, being admitted, *)
(*             evicted and disconnected;                                   *)
(*   SpecNotice  the registry with the administrator's kick;               *)
(*   SpecPresence  the registry with a caller of the presence listing;     *)
(*   SpecSpeed one connection and its client's set_speed events;           *)
(*   SpecChan  one admitted session, its channel and its Logic Task, the   *)
(*             administrator's kick and the client's disconnect;           *)
(*   SpecTimed that session with settimeout, the passing of time in a      *)
(*             blocked recv, and the multi-line editor;                    *)
(*   SpecSend  that session with its Sender Task, the callers of send and  *)
(*             the client's speed setting;                                 *)
(*   SpecDown  that session and its Sender Task while the session is torn  *)
(*             down, and a transport error in the Sender Task;             *)
(*   SpecStall two admitted sessions, one waiting in recv and in a paced   *)
(*             run while the tasks of the other go on;                     *)
(*   SpecFlow  one admitted session that is not torn down, the callers of  *)
(*             send and its Sender Task, scheduled fairly;                 *)
(*   SpecLog   one admitted session with the logging capture, the callers  *)
(*             of send and its Sender Task;                                *)
(*   SpecEnd   one admitted session whose Logic Task calls recv before and  *)
(*             after the client's disconnect has closed the channel;       *)
(*   SpecWake  one admitted session whose Logic Task keeps calling recv(1) *)
(*             and is scheduled fairly, and its client's input;            *)
(*   SpecPair  two admitted sessions, their input, their disconnects and   *)
(*             their Logic Tasks ending on an exception;                   *)
(*   SpecLine  two admitted sessions reading the same scripted input, one  *)
(*             with process_input and one with hide_process_input;         *)
(*   SpecEnding  a session reading lines that end in CR, in LF or in both. *)
(***************************************************************************)
EXTENDS Integers, Sequences, FiniteSets, TLC

\* ------------------------------------------------------------------ bounds
\* Number of transport connections (session ids) a run of Spec may open.
NumSids == 2
\* Largest admission ceiling tried (0 means unbounded).
MaxCeiling == 1
\* force_disconnect notices counted per session before the count saturates.
MaxNotices == 1
\* Input events the client of the SpecChan session sends in one run.
MaxInputs == 2
\* Largest n the Logic Task passes to recv(n) directly.
MaxRecvN == 2
\* Fragments the callers of send hand over in one run of the editor and
\* sender specifications.
MaxSends == 2
\* set_speed events the client sends in one run.
MaxSpeeds == 2

Sids == 1 .. NumSids
None == 0

\* Login names carried by the Flask session of a connect request.  The
\* names of distinct users are interchangeable: "bob" is the second one.
Usernames == {"alice", "bob", "Guest"}

\* str.upper() on the login names above.
Upper(u) == IF u = "Guest" THEN "GUEST" ELSE u

IsGuestMutExact(u) == u = "GUEST"

\* The guest test of events.py:68.
IsGuest(u) == Upper(u) = "GUEST"

VARIABLES
    \* --- process-wide state (terminal_handler.py:27-31)
    client_states,            \* the dict {sid: handler}: its keys, in
                              \* insertion order
    current_webapp_clients,   \* admission counter
    lock_holder,              \* current_webapp_clients_lock: None or the sid
                              \* whose connect handler holds it across a yield
    max_clients,              \* server pref max_concurrent_webapp_clients
    \* --- the transport (python-socketio's view of each connection)
    transport,                \* "none" | "open" | "closing" | "closed"
    force_disconnect,         \* notices emitted to each sid (saturating)
    room_closed,              \* close_room(sid) was called
    \* --- handler greenlets
    session_username,         \* session['username'] of the connect request
    cpc,                      \* position of handle_connect for the sid
    sid_to_disconnect,        \* its local variable of that name
    dpc,                      \* position of handle_disconnect for the sid
    d_effect,                 \* what that handle_disconnect run has done
    \* --- WebTerminalHandler / WebChannel fields of the sid's handler object
    active,
    main_thread_active,
    input_event,
    stop_worker_event,
    input_queue,              \* deque of input fragments (strings)
    output_queue,             \* deque of output fragments (strings)
    recv_buffer,              \* WebChannel.recv_buffer (bytes)
    \* --- the Logic Task of the sid (_bbs_main_loop and what it calls)
    lpc,                      \* its position
    recv_n,                   \* argument n of the recv call in progress
    recv_caller,              \* who called it: "logic" | "process_input"
    recv_ret,                 \* what the last recv call returned
    echo,                     \* argument of _process_input_internal
    line_buffer,              \* its local list of decoded characters
    decoder,                  \* bytes pending in its incremental decoder
    pi_ret,                   \* what the last line read returned
    n_inputs,                 \* input events the client has sent so far
    ml_ret,                   \* what the last process_multiline_input did
    \* --- WebChannel._timeout and the clock of a blocked recv
    chan_timeout,             \* WebChannel._timeout: None or milliseconds
    waited,                   \* that long has passed since recv began to wait
    \* --- the Sender Task of the sid (_sender_worker)
    spc,                      \* its position
    text_to_send,             \* the fragment it took from output_queue
    parts,                    \* the parts of the fragment still to handle
    part,                     \* the plain-text run being paced
    part_rest,                \* the characters of that run still to emit
    bps_delay,                \* WebTerminalHandler.bps_delay
    n_speeds,                 \* set_speed events the client has sent so far
    \* --- what an observer of the session's transport and callers sees
    wire,                     \* emits and pacing sleeps of the Sender Task
    frag_start,               \* Len(wire) when text_to_send was taken
    run_start,                \* Len(wire) when the paced run began
    sent_log,                 \* fragments handed to send, in call order
    sent_ctx,                 \* bps_delay and active at each of those calls
    typed,                    \* the input events the clients of a line-reading
                              \* run send, in order
    members,                  \* what the last get_webapp_online_members call
                              \* returned to its caller
    \* --- logging capture of the sid's handler object
    is_logging,               \* WebTerminalHandler.is_logging
    log_buffer,               \* WebTerminalHandler.log_buffer
    \* --- the speed profile of the sid's handler object
    speed                     \* WebTerminalHandler.speed: written by
                              \* handle_set_speed, read by nothing

regVars == <<client_states, current_webapp_clients, lock_holder, max_clients,
             transport, force_disconnect, room_closed, session_username,
             cpc, sid_to_disconnect, dpc, d_effect>>

objVars == <<active, main_thread_active, input_event, stop_worker_event>>

queueVars == <<input_queue, output_queue, recv_buffer>>

taskVars == <<lpc, recv_n, recv_caller, recv_ret, echo, line_buffer, decoder,
              pi_ret, n_inputs>>

chanVars == <<queueVars, taskVars>>

timeVars == <<ml_ret, chan_timeout, waited>>

sendVars == <<spc, text_to_send, parts, part, part_rest, bps_delay, n_speeds,
              wire, frag_start, run_start, sent_log>>

logVars == <<is_logging, log_buffer>>

histVars == <<sent_ctx, typed, members, logVars, speed>>

vars == <<regVars, objVars, chanVars, timeVars, sendVars, histVars>>

\* ---------------------------------------------------------------- registry

\* WebTerminalHandler.stop_worker: no blocking call inside, one atomic step.
StopWorkerMutNoWake(s) ==
    /\ main_thread_active' = [main_thread_active EXCEPT ![s] = FALSE]
    /\ active' = [active EXCEPT ![s] = FALSE]
    /\ input_event' = input_event
    /\ stop_worker_event' = [stop_worker_event EXCEPT ![s] = TRUE]

stop_worker(s) ==
    /\ main_thread_active' = [main_thread_active EXCEPT ![s] = FALSE]
    /\ active' = [active EXCEPT ![s] = FALSE]
    /\ input_event' = [input_event EXCEPT ![s] = TRUE]
    /\ stop_worker_event' = [stop_worker_event EXCEPT ![s] = TRUE]

\* The keys of a dict kept as the sequence of its keys.
Keys(d) == {d[i] : i \in DOMAIN d}

\* del d[k]
DictDelete(d, k) == SelectSeq(d, LAMBDA x : x # k)

\* No presence listing was asked for yet.
NotCalled == [called |-> FALSE, list |-> <<>>]

\* get_webapp_online_members: the sids listed, from a copy of the dict.
get_webapp_online_members ==
    {s \in Keys(client_states) : session_username[s] # ""}

MembersMutLive(copy, i) ==
    [k \in 1 .. NumSids |-> [sid |-> k, username |-> session_username[k]]]

\* The loop of get_webapp_online_members over the copy taken at line 54:
\* one entry for each sid of the copy whose session carries a username, in
\* the order of the copy.
RECURSIVE MembersFrom(_, _)
MembersFrom(copy, i) ==
    IF i > Len(copy) THEN <<>>
    ELSE LET sid == copy[i]
             login_id == session_username[sid]
         IN (IF login_id # ""
             THEN << [sid |-> sid, username |-> login_id] >>
             ELSE <<>>) \o MembersFrom(copy, i + 1)

\* A caller (the who command, the admin page, the chat room list) asks for
\* the listing; the function has no blocking call, it is one step.
CallOnlineMembers ==
    /\ members' = [called |-> TRUE, list |-> MembersFrom(client_states, 1)]
    /\ UNCHANGED <<regVars, objVars, chanVars, timeVars, sendVars, sent_ctx,
                   typed, logVars, speed>>

\* The duplicate search of handle_connect, events.py:68-73: the first sid,
\* in dict order, whose handler carries the connecting username; None for
\* a guest and when there is no such sid.
DuplicateSid(u) ==
    LET hits == {i \in DOMAIN client_states :
                    session_username[client_states[i]] = u}
    IN IF IsGuest(u) \/ hits = {} THEN None
       ELSE client_states[CHOOSE i \in hits : \A j \in hits : i <= j]

Saturate(n) == IF n < MaxNotices THEN n + 1 ELSE n

\* A connect request reaches the server: python-socketio registers the sid
\* (manager.connect) and starts handle_connect, which first blocks in the
\* IP-ban lookup (events.py:48-62).  Sids are fresh; the next one is used.
EventConnect(c, u) ==
    /\ cpc[c] = "idle"
    /\ \A k \in Sids : k < c => cpc[k] # "idle"
    /\ u = "bob" => \E k \in Sids : session_username[k] = "alice"
    /\ cpc' = [cpc EXCEPT ![c] = "begin"]
    /\ transport' = [transport EXCEPT ![c] = "open"]
    /\ session_username' = [session_username EXCEPT ![c] = u]
    /\ UNCHANGED <<client_states, current_webapp_clients, lock_holder,
                   max_clients, force_disconnect, room_closed,
                   sid_to_disconnect, dpc, d_effect, objVars, chanVars>>
    /\ UNCHANGED <<timeVars, sendVars>>
    /\ UNCHANGED histVars

\* handle_connect, events.py:67-81: the duplicate search and, when a holder
\* is found, the notice and disconnect(sid_to_disconnect).  python-socketio
\* runs handle_disconnect for that sid inside this call, unless the sid is
\* no longer connected or its disconnect is already under way.
ConnectDuplicateCheck(c) ==
    /\ cpc[c] = "begin"
    /\ LET old == DuplicateSid(session_username[c]) IN
        /\ sid_to_disconnect' = [sid_to_disconnect EXCEPT ![c] = old]
        /\ IF old = None
           THEN /\ cpc' = [cpc EXCEPT ![c] = "lock"]
                /\ UNCHANGED <<force_disconnect, transport, dpc>>
           ELSE /\ force_disconnect' =
                      [force_disconnect EXCEPT ![old] = Saturate(@)]
                /\ IF transport[old] = "open"
                   THEN /\ transport' = [transport EXCEPT ![old] = "closing"]
                        /\ dpc' = [dpc EXCEPT ![old] = "dec"]
                        /\ cpc' = [cpc EXCEPT ![c] = "evicting"]
                   ELSE /\ cpc' = [cpc EXCEPT ![c] = "lock"]
                        /\ UNCHANGED <<transport, dpc>>
    /\ UNCHANGED <<client_states, current_webapp_clients, lock_holder,
                   max_clients, room_closed, session_username, d_effect,
                   objVars, chanVars>>
    /\ UNCHANGED <<timeVars, sendVars>>
    /\ UNCHANGED histVars

\* disconnect(sid_to_disconnect) returns once the inner handle_disconnect
\* has run to its end.
ConnectEvictReturn(c) ==
    /\ cpc[c] = "evicting"
    /\ dpc[sid_to_disconnect[c]] = "done"
    /\ cpc' = [cpc EXCEPT ![c] = "lock"]
    /\ UNCHANGED <<client_states, current_webapp_clients, lock_holder,
                   max_clients, transport, force_disconnect, room_closed,
                   session_username, sid_to_disconnect, dpc, d_effect,
                   objVars, chanVars>>
    /\ UNCHANGED <<timeVars, sendVars>>
    /\ UNCHANGED histVars

\* events.py:83-84: take the lock, then block in database.read_server_pref.
ConnectLock(c) ==
    /\ cpc[c] = "lock"
    /\ lock_holder = None
    /\ lock_holder' = c
    /\ cpc' = [cpc EXCEPT ![c] = "check"]
    /\ UNCHANGED <<client_states, current_webapp_clients, max_clients,
                   transport, force_disconnect, room_closed,
                   session_username, sid_to_disconnect, dpc, d_effect,
                   objVars, chanVars>>
    /\ UNCHANGED <<timeVars, sendVars>>
    /\ UNCHANGED histVars

\* The ceiling test of events.py:87.
CeilingReached(n) == max_clients > 0 /\ n >= max_clients

\* events.py:85-97: the ceiling test; a rejected connect returns False (and
\* python-socketio drops the connection without a disconnect event), an
\* accepted one counts itself, leaves the lock and blocks in
\* database.log_access_event.
ConnectCheck(c) ==
    /\ cpc[c] = "check"
    /\ lock_holder = c
    /\ lock_holder' = None
    /\ IF CeilingReached(current_webapp_clients)
       THEN /\ cpc' = [cpc EXCEPT ![c] = "rejected"]
            /\ transport' = [transport EXCEPT ![c] =
                               IF @ = "open" THEN "closed" ELSE @]
            /\ UNCHANGED current_webapp_clients
       ELSE /\ cpc' = [cpc EXCEPT ![c] = "insert"]
            /\ current_webapp_clients' = current_webapp_clients + 1
            /\ UNCHANGED transport
    /\ UNCHANGED <<client_states, max_clients, force_disconnect, room_closed,
                   session_username, sid_to_disconnect, dpc, d_effect,
                   objVars, chanVars>>
    /\ UNCHANGED <<timeVars, sendVars>>
    /\ UNCHANGED histVars

\* events.py:99-107: build the handler object (its two tasks are spawned,
\* not run) and put it into the registry.
ConnectInsert(c) ==
    /\ cpc[c] = "insert"
    /\ cpc' = [cpc EXCEPT ![c] = "done"]
    /\ client_states' = Append(client_states, c)
    /\ UNCHANGED <<current_webapp_clients, lock_holder, max_clients,
                   transport, force_disconnect, room_closed,
                   session_username, sid_to_disconnect, dpc, d_effect,
                   objVars, chanVars>>
    /\ UNCHANGED <<timeVars, sendVars>>
    /\ UNCHANGED histVars

\* The client's transport closes (or the client disconnects after a
\* force_disconnect notice): python-socketio starts handle_disconnect once
\* for a sid it has registered, also while that sid's handle_connect is
\* still suspended.
EventDisconnect(s) ==
    /\ transport[s] = "open"
    /\ transport' = [transport EXCEPT ![s] = "closing"]
    /\ dpc' = [dpc EXCEPT ![s] = "dec"]
    /\ UNCHANGED <<client_states, current_webapp_clients, lock_holder,
                   max_clients, force_disconnect, room_closed,
                   session_username, cpc, sid_to_disconnect, d_effect,
                   objVars, chanVars>>
    /\ UNCHANGED <<timeVars, sendVars>>
    /\ UNCHANGED histVars

\* The counter update of events.py:122-123.
Decrement(n) == IF n - 1 > 0 THEN n - 1 ELSE 0

\* handle_disconnect, events.py:121-136: the decrement under the lock, then
\* the handler blocks in database.log_access_event.
DisconnectDecrement(s) ==
    /\ dpc[s] = "dec"
    /\ lock_holder = None
    /\ current_webapp_clients' = Decrement(current_webapp_clients)
    /\ d_effect' = [d_effect EXCEPT ![s].lowered =
                       (current_webapp_clients' # current_webapp_clients)]
    /\ dpc' = [dpc EXCEPT ![s] = "remove"]
    /\ UNCHANGED <<client_states, lock_holder, max_clients, transport,
                   force_disconnect, room_closed, session_username, cpc,
                   sid_to_disconnect, objVars, chanVars>>
    /\ UNCHANGED <<timeVars, sendVars>>
    /\ UNCHANGED histVars

\* handle_disconnect, events.py:138-140.
DisconnectRemove(s) ==
    /\ dpc[s] = "remove"
    /\ dpc' = [dpc EXCEPT ![s] = "done"]
    /\ transport' = [transport EXCEPT ![s] = "closed"]
    /\ IF s \in Keys(client_states)
       THEN /\ stop_worker(s)
            /\ client_states' = DictDelete(client_states, s)
            /\ d_effect' = [d_effect EXCEPT ![s].removed = TRUE]
       ELSE UNCHANGED <<client_states, d_effect, objVars>>
    /\ UNCHANGED <<current_webapp_clients, lock_holder, max_clients,
                   force_disconnect, room_closed, session_username, cpc,
                   sid_to_disconnect, chanVars>>
    /\ UNCHANGED <<timeVars, sendVars>>
    /\ UNCHANGED histVars

\* kick_user_session, terminal_handler.py:71-91, reached from the admin
\* route kick_user.  TRUE is returned exactly when the sid is registered.
KickFound(s) == s \in Keys(client_states)

KickMutSilent(s) ==
    IF KickFound(s)
    THEN /\ room_closed' = [room_closed EXCEPT ![s] = TRUE]
         /\ UNCHANGED <<client_states, current_webapp_clients, lock_holder,
                        max_clients, transport, force_disconnect,
                        session_username, cpc, sid_to_disconnect, dpc,
                        d_effect, objVars, chanVars, timeVars, sendVars,
                        histVars>>
    ELSE UNCHANGED vars

kick_user_session(s) ==
    IF KickFound(s)
    THEN /\ force_disconnect' = [force_disconnect EXCEPT ![s] = Saturate(@)]
         /\ room_closed' = [room_closed EXCEPT ![s] = TRUE]
         /\ UNCHANGED <<client_states, current_webapp_clients, lock_holder,
                        max_clients, transport, session_username, cpc,
                        sid_to_disconnect, dpc, d_effect, objVars, chanVars,
                        timeVars, sendVars, histVars>>
    ELSE UNCHANGED vars

\* ----------------------------------------------------------------- channel

\* Characters of the model: "a" (one column, one byte), "W" (a wide CJK
\* glyph such as U+3042: two columns, three bytes), "alpha" (U+03B1, of
\* ambiguous East Asian width: two bytes, ce b1), and the controls
\* "CR", "LF", "BS", "DEL", "SP".  An ASCII byte bears its character's name.
encode_utf8(ch) ==
    IF ch = "W" THEN <<"e3", "81", "82">>
    ELSE IF ch = "alpha" THEN <<"ce", "b1">>
    ELSE <<ch>>

\* str.encode('utf-8')
RECURSIVE EncodeStr(_)
EncodeStr(str) ==
    IF str = <<>> THEN <<>>
    ELSE encode_utf8(Head(str)) \o EncodeStr(Tail(str))

\* bytes.decode('utf-8', 'ignore')
RECURSIVE DecodeIgnore(_)
DecodeIgnore(b) ==
    IF b = <<>> THEN <<>>
    ELSE IF Head(b) = "e3"
         THEN IF Len(b) >= 3 /\ b[2] = "81" /\ b[3] = "82"
              THEN <<"W">> \o DecodeIgnore(SubSeq(b, 4, Len(b)))
              ELSE DecodeIgnore(Tail(b))
         ELSE IF Head(b) = "ce"
         THEN IF Len(b) >= 2 /\ b[2] = "b1"
              THEN <<"alpha">> \o DecodeIgnore(SubSeq(b, 3, Len(b)))
              ELSE DecodeIgnore(Tail(b))
         ELSE IF Head(b) \in {"81", "82", "b1"}
              THEN DecodeIgnore(Tail(b))
              ELSE <<Head(b)>> \o DecodeIgnore(Tail(b))

\* A decoder that keeps no partial sequence: the bytes of a multi-byte
\* character are dropped one by one.
DecoderFeedMutDiscard(pending, b) ==
    [out |-> IF b \in {"e3", "81", "82", "ce", "b1"} THEN <<>> ELSE <<b>>,
     pending |-> <<>>]

\* One byte fed to codecs.getincrementaldecoder('utf-8')('ignore'):
\* the characters it yields and the bytes it keeps pending.
DecoderFeed(pending, b) ==
    IF b = "e3" THEN [out |-> <<>>, pending |-> <<"e3">>]
    ELSE IF b = "ce" THEN [out |-> <<>>, pending |-> <<"ce">>]
    ELSE IF b = "b1"
         THEN [out |-> IF pending = <<"ce">> THEN <<"alpha">> ELSE <<>>,
               pending |-> <<>>]
    ELSE IF b = "81"
         THEN [out |-> <<>>,
               pending |-> IF pending = <<"e3">> THEN <<"e3", "81">> ELSE <<>>]
    ELSE IF b = "82"
         THEN [out |-> IF pending = <<"e3", "81">> THEN <<"W">> ELSE <<>>,
               pending |-> <<>>]
    ELSE [out |-> <<b>>, pending |-> <<>>]

\* unicodedata.east_asian_width(ch) for the characters above.
east_asian_width(ch) ==
    CASE ch = "W" -> "W"
      [] ch = "alpha" -> "A"
      [] OTHER -> "Na"

\* Line 247-250: 2 if width in ('F', 'W', 'A') else 1.
char_width(ch) == IF east_asian_width(ch) \in {"F", "W", "A"} THEN 2 ELSE 1

Repeat(x, n) == [i \in 1 .. n |-> x]

\* What the line readers return: None, or a str.
NoneRet == [kind |-> "None", val |-> <<>>]
StrRet(str) == [kind |-> "str", val |-> str]
Pending == [kind |-> "pending", val |-> <<>>]

\* WebChannel.send (terminal_handler.py:196-203) of a bytes object.
SendMutPrepend(s, data) ==
    output_queue' = [output_queue EXCEPT ![s] = <<DecodeIgnore(data)>> \o @]

send(s, data) ==
    output_queue' = [output_queue EXCEPT ![s] = Append(@, DecodeIgnore(data))]

\* An input handler that queues the fragment and does not signal.
HandleClientInputMutNoSet(s, data) ==
    /\ transport[s] = "open"
    /\ n_inputs[s] < MaxInputs
    /\ n_inputs' = [n_inputs EXCEPT ![s] = @ + 1]
    /\ input_queue' = [input_queue EXCEPT ![s] = Append(@, data)]
    /\ UNCHANGED <<regVars, objVars, output_queue, recv_buffer, lpc, recv_n,
                   recv_caller, recv_ret, echo, line_buffer, decoder, pi_ret>>
    /\ UNCHANGED <<timeVars, sendVars>>
    /\ UNCHANGED histVars

\* What the client may type in one client_input event.
InputFragments == {<<"a">>, <<"a", "CR">>, <<"W", "BS">>}

\* handle_client_input, events.py:142-149.
handle_client_input(s, data) ==
    /\ transport[s] = "open"
    /\ n_inputs[s] < MaxInputs
    /\ n_inputs' = [n_inputs EXCEPT ![s] = @ + 1]
    /\ IF s \in Keys(client_states)
       THEN /\ input_queue' = [input_queue EXCEPT ![s] = Append(@, data)]
            /\ input_event' = [input_event EXCEPT ![s] = TRUE]
       ELSE UNCHANGED <<input_queue, input_event>>
    /\ UNCHANGED <<regVars, active, main_thread_active, stop_worker_event,
                   output_queue, recv_buffer, lpc, recv_n, recv_caller,
                   recv_ret, echo, line_buffer, decoder, pi_ret>>
    /\ UNCHANGED <<timeVars, sendVars>>
    /\ UNCHANGED histVars

\* The caller of the channel has been told to unwind: a line read returned
\* None, or process_multiline_input raised.
Unwound(s) == pi_ret[s].kind = "None" \/ ml_ret[s].kind = "raise"

\* A hide_process_input that echoes as process_input does.
CallProcessInputMutEcho(s, e) ==
    /\ lpc[s] = "main"
    /\ ~Unwound(s)
    /\ lpc' = [lpc EXCEPT ![s] = "pi_while"]
    /\ echo' = [echo EXCEPT ![s] = TRUE]
    /\ line_buffer' = [line_buffer EXCEPT ![s] = <<>>]
    /\ decoder' = [decoder EXCEPT ![s] = <<>>]
    /\ pi_ret' = [pi_ret EXCEPT ![s] = Pending]
    /\ UNCHANGED <<regVars, objVars, queueVars, recv_n, recv_caller,
                   recv_ret, n_inputs>>
    /\ UNCHANGED <<timeVars, sendVars>>
    /\ UNCHANGED histVars

\* The business logic calls process_input (e = TRUE) or hide_process_input
\* (e = FALSE): terminal_handler.py:231-233, 276-286.  A caller that got
\* None unwinds and reads no more.
CallProcessInput(s, e) ==
    /\ lpc[s] = "main"
    /\ ~Unwound(s)
    /\ lpc' = [lpc EXCEPT ![s] = "pi_while"]
    /\ echo' = [echo EXCEPT ![s] = e]
    /\ line_buffer' = [line_buffer EXCEPT ![s] = <<>>]
    /\ decoder' = [decoder EXCEPT ![s] = <<>>]
    /\ pi_ret' = [pi_ret EXCEPT ![s] = Pending]
    /\ UNCHANGED <<regVars, objVars, queueVars, recv_n, recv_caller,
                   recv_ret, n_inputs>>
    /\ UNCHANGED <<timeVars, sendVars>>
    /\ UNCHANGED histVars

\* The business logic calls recv(n) itself (bbs_handler.py:351-409).
CallRecv(s, n) ==
    /\ lpc[s] = "main"
    /\ ~Unwound(s)
    /\ lpc' = [lpc EXCEPT ![s] = "r_while"]
    /\ recv_n' = [recv_n EXCEPT ![s] = n]
    /\ recv_caller' = [recv_caller EXCEPT ![s] = "logic"]
    /\ UNCHANGED <<regVars, objVars, queueVars, recv_ret, echo, line_buffer,
                   decoder, pi_ret, n_inputs>>
    /\ UNCHANGED <<timeVars, sendVars>>
    /\ UNCHANGED histVars

\* _process_input_internal, line 235-236: while self.active: recv(1)
ProcessInputWhile(s) ==
    /\ lpc[s] = "pi_while"
    /\ IF active[s]
       THEN /\ lpc' = [lpc EXCEPT ![s] = "r_while"]
            /\ recv_n' = [recv_n EXCEPT ![s] = 1]
            /\ recv_caller' = [recv_caller EXCEPT ![s] = "process_input"]
       ELSE /\ lpc' = [lpc EXCEPT ![s] = "pi_final"]
            /\ UNCHANGED <<recv_n, recv_caller>>
    /\ UNCHANGED <<regVars, objVars, queueVars, recv_ret, echo, line_buffer,
                   decoder, pi_ret, n_inputs>>
    /\ UNCHANGED <<timeVars, sendVars>>
    /\ UNCHANGED histVars

\* A recv whose loop goes on after the channel was closed.
RecvWhileMutDrain(s) ==
    /\ lpc[s] = "r_while"
    /\ lpc' = [lpc EXCEPT ![s] =
                 IF Len(recv_buffer[s]) < recv_n[s]
                    /\ (active[s] \/ input_queue[s] # <<>>)
                 THEN "r_queue" ELSE "r_return"]
    /\ UNCHANGED <<regVars, objVars, queueVars, recv_n, recv_caller,
                   recv_ret, echo, line_buffer, decoder, pi_ret, n_inputs>>
    /\ UNCHANGED <<timeVars, sendVars>>
    /\ UNCHANGED histVars

\* recv, line 206: while len(self.recv_buffer) < n and self.active
RecvWhile(s) ==
    /\ lpc[s] = "r_while"
    /\ lpc' = [lpc EXCEPT ![s] =
                 IF Len(recv_buffer[s]) < recv_n[s] /\ active[s]
                 THEN "r_queue" ELSE "r_return"]
    /\ UNCHANGED <<regVars, objVars, queueVars, recv_n, recv_caller,
                   recv_ret, echo, line_buffer, decoder, pi_ret, n_inputs>>
    /\ UNCHANGED <<timeVars, sendVars>>
    /\ UNCHANGED histVars

\* A recv that takes the registry lock before it waits.
RecvQueueCheckMutLocked(s) ==
    /\ lpc[s] = "r_queue"
    /\ lock_holder = None
    /\ lpc' = [lpc EXCEPT ![s] =
                 IF input_queue[s] = <<>> THEN "r_wait" ELSE "r_pop"]
    /\ lock_holder' = IF input_queue[s] = <<>> THEN s ELSE None
    /\ UNCHANGED <<client_states, current_webapp_clients, max_clients,
                   transport, force_disconnect, room_closed,
                   session_username, cpc, sid_to_disconnect, dpc, d_effect>>
    /\ UNCHANGED <<objVars, queueVars, recv_n, recv_caller,
                   recv_ret, echo, line_buffer, decoder, pi_ret, n_inputs>>
    /\ UNCHANGED <<timeVars, sendVars>>
    /\ UNCHANGED histVars

\* recv, line 207: if not self.handler.input_queue
RecvQueueCheck(s) ==
    /\ lpc[s] = "r_queue"
    /\ lpc' = [lpc EXCEPT ![s] =
                 IF input_queue[s] = <<>> THEN "r_wait" ELSE "r_pop"]
    /\ UNCHANGED <<regVars, objVars, queueVars, recv_n, recv_caller,
                   recv_ret, echo, line_buffer, decoder, pi_ret, n_inputs>>
    /\ UNCHANGED <<timeVars, sendVars>>
    /\ UNCHANGED histVars

\* recv, line 208: input_event.wait(timeout=None) returns, with True, once
\* the event is set; with no timeout it never returns False.
RecvWait(s) ==
    /\ lpc[s] = "r_wait"
    /\ input_event[s]
    /\ lpc' = [lpc EXCEPT ![s] = "r_clear"]
    /\ waited' = [waited EXCEPT ![s] = FALSE]
    /\ UNCHANGED <<regVars, objVars, queueVars, recv_n, recv_caller,
                   recv_ret, echo, line_buffer, decoder, pi_ret, n_inputs>>
    /\ UNCHANGED <<ml_ret, chan_timeout, sendVars>>
    /\ UNCHANGED histVars

\* recv, line 210: input_event.clear()
RecvClear(s) ==
    /\ lpc[s] = "r_clear"
    /\ input_event' = [input_event EXCEPT ![s] = FALSE]
    /\ lpc' = [lpc EXCEPT ![s] = "r_active"]
    /\ UNCHANGED <<regVars, active, main_thread_active, stop_worker_event,
                   queueVars, recv_n, recv_caller, recv_ret, echo,
                   line_buffer, decoder, pi_ret, n_inputs>>
    /\ UNCHANGED <<timeVars, sendVars>>
    /\ UNCHANGED histVars

\* recv, line 211-212: if not self.active: break
RecvActiveCheck(s) ==
    /\ lpc[s] = "r_active"
    /\ lpc' = [lpc EXCEPT ![s] = IF active[s] THEN "r_pop" ELSE "r_return"]
    /\ UNCHANGED <<regVars, objVars, queueVars, recv_n, recv_caller,
                   recv_ret, echo, line_buffer, decoder, pi_ret, n_inputs>>
    /\ UNCHANGED <<timeVars, sendVars>>
    /\ UNCHANGED histVars

\* recv, line 213-217: popleft and encode; IndexError means continue.
RecvPop(s) ==
    /\ lpc[s] = "r_pop"
    /\ lpc' = [lpc EXCEPT ![s] = "r_while"]
    /\ IF input_queue[s] = <<>>
       THEN UNCHANGED <<input_queue, recv_buffer>>
       ELSE /\ input_queue' = [input_queue EXCEPT ![s] = Tail(@)]
            /\ recv_buffer' = [recv_buffer EXCEPT ![s] =
                                 @ \o EncodeStr(Head(input_queue[s]))]
    /\ UNCHANGED <<regVars, objVars, output_queue, recv_n, recv_caller,
                   recv_ret, echo, line_buffer, decoder, pi_ret, n_inputs>>
    /\ UNCHANGED <<timeVars, sendVars>>
    /\ UNCHANGED histVars

Min(a, b) == IF a < b THEN a ELSE b

\* A recv that returns all it has buffered, whatever n.
RecvResultMutAll(is_active, buffer, n) == buffer

\* recv, line 218-222: the value returned.
RecvResult(is_active, buffer, n) ==
    IF ~is_active /\ buffer = <<>> THEN <<>>
    ELSE SubSeq(buffer, 1, Min(n, Len(buffer)))

RecvReturn(s) ==
    /\ lpc[s] = "r_return"
    /\ recv_ret' = [recv_ret EXCEPT ![s] =
                      RecvResult(active[s], recv_buffer[s], recv_n[s])]
    /\ recv_buffer' = [recv_buffer EXCEPT ![s] =
                         SubSeq(@, recv_n[s] + 1, Len(@))]
    /\ lpc' = [lpc EXCEPT ![s] =
                 IF recv_caller[s] = "process_input" THEN "pi_char"
                 ELSE "main"]
    /\ UNCHANGED <<regVars, objVars, input_queue, output_queue, recv_n,
                   recv_caller, echo, line_buffer, decoder, pi_ret, n_inputs>>
    /\ UNCHANGED <<timeVars, sendVars>>
    /\ UNCHANGED histVars

\* A line reader for which the carriage return alone ends a line, and a
\* linefeed is passed over.
ProcessInputCharMutCrOnly(s) ==
    /\ lpc[s] = "pi_char"
    /\ LET b == recv_ret[s] IN
       IF b = <<>>
       THEN /\ pi_ret' = [pi_ret EXCEPT ![s] = NoneRet]
            /\ lpc' = [lpc EXCEPT ![s] = "main"]
            /\ UNCHANGED <<output_queue, line_buffer, decoder>>
       ELSE IF b[1] = "CR"
       THEN /\ lpc' = [lpc EXCEPT ![s] = "pi_final"]
            /\ IF echo[s] THEN send(s, <<"CR", "LF">>)
               ELSE UNCHANGED output_queue
            /\ UNCHANGED <<pi_ret, line_buffer, decoder>>
       ELSE IF b[1] \in {"LF", "BS", "DEL"}
       THEN /\ lpc' = [lpc EXCEPT ![s] = "pi_while"]
            /\ UNCHANGED <<pi_ret, line_buffer, decoder, output_queue>>
       ELSE LET d == DecoderFeed(decoder[s], b[1]) IN
            /\ lpc' = [lpc EXCEPT ![s] = "pi_while"]
            /\ decoder' = [decoder EXCEPT ![s] = d.pending]
            /\ line_buffer' = [line_buffer EXCEPT ![s] = @ \o d.out]
            /\ IF echo[s] /\ d.out # <<>>
               THEN send(s, EncodeStr(d.out))
               ELSE UNCHANGED output_queue
            /\ UNCHANGED pi_ret
    /\ UNCHANGED <<regVars, objVars, input_queue, recv_buffer, recv_n,
                   recv_caller, recv_ret, echo, n_inputs>>
    /\ UNCHANGED <<timeVars, sendVars>>
    /\ UNCHANGED histVars

\* _process_input_internal, line 237-263: one byte handled.
ProcessInputChar(s) ==
    /\ lpc[s] = "pi_char"
    /\ LET b == recv_ret[s] IN
       IF b = <<>>
       THEN /\ pi_ret' = [pi_ret EXCEPT ![s] = NoneRet]
            /\ lpc' = [lpc EXCEPT ![s] = "main"]
            /\ UNCHANGED <<output_queue, line_buffer, decoder>>
       ELSE IF b[1] \in {"CR", "LF"}
       THEN /\ lpc' = [lpc EXCEPT ![s] = "pi_final"]
            /\ IF echo[s] THEN send(s, <<"CR", "LF">>)
               ELSE UNCHANGED output_queue
            /\ UNCHANGED <<pi_ret, line_buffer, decoder>>
       ELSE IF b[1] \in {"BS", "DEL"}
       THEN /\ lpc' = [lpc EXCEPT ![s] = "pi_while"]
            /\ IF line_buffer[s] # <<>>
               THEN /\ line_buffer' = [line_buffer EXCEPT ![s] =
                                         SubSeq(@, 1, Len(@) - 1)]
                    /\ IF echo[s]
                       THEN LET w == char_width(
                                      line_buffer[s][Len(line_buffer[s])])
                            IN send(s, Repeat("BS", w) \o Repeat("SP", w)
                                       \o Repeat("BS", w))
                       ELSE UNCHANGED output_queue
               ELSE UNCHANGED <<line_buffer, output_queue>>
            /\ UNCHANGED <<pi_ret, decoder>>
       ELSE LET d == DecoderFeed(decoder[s], b[1]) IN
            /\ lpc' = [lpc EXCEPT ![s] = "pi_while"]
            /\ decoder' = [decoder EXCEPT ![s] = d.pending]
            /\ line_buffer' = [line_buffer EXCEPT ![s] = @ \o d.out]
            /\ IF echo[s] /\ d.out # <<>>
               THEN send(s, EncodeStr(d.out))
               ELSE UNCHANGED output_queue
            /\ UNCHANGED pi_ret
    /\ UNCHANGED <<regVars, objVars, input_queue, recv_buffer, recv_n,
                   recv_caller, recv_ret, echo, n_inputs>>
    /\ UNCHANGED <<timeVars, sendVars>>
    /\ UNCHANGED histVars

\* A line reader that hands the terminator back with the line.
ProcessInputResultMutKeepEnd(line) == StrRet(Append(line, "CR"))

\* The value of line 271-274: an incomplete character left in the decoder
\* is ignored by decode(b'', final=True); the line read so far is returned.
ProcessInputResult(line) == StrRet(line)

\* _process_input_internal, line 271-274.
ProcessInputFinal(s) ==
    /\ lpc[s] = "pi_final"
    /\ pi_ret' = [pi_ret EXCEPT ![s] = ProcessInputResult(line_buffer[s])]
    /\ decoder' = [decoder EXCEPT ![s] = <<>>]
    /\ lpc' = [lpc EXCEPT ![s] = "main"]
    /\ UNCHANGED <<regVars, objVars, queueVars, recv_n, recv_caller,
                   recv_ret, echo, line_buffer, n_inputs>>
    /\ UNCHANGED <<timeVars, sendVars>>
    /\ UNCHANGED histVars

\* _bbs_main_loop, line 362-370 and 378-379: the logoff command.
LogicLogoff(s) ==
    /\ lpc[s] = "main"
    /\ pi_ret[s].kind = "str"
    /\ main_thread_active[s]
    /\ force_disconnect' = [force_disconnect EXCEPT ![s] = Saturate(@)]
    /\ stop_worker(s)
    /\ lpc' = [lpc EXCEPT ![s] = "exited"]
    /\ UNCHANGED <<client_states, current_webapp_clients, lock_holder,
                   max_clients, transport, room_closed, session_username,
                   cpc, sid_to_disconnect, dpc, d_effect, queueVars, recv_n,
                   recv_caller, recv_ret, echo, line_buffer, decoder, pi_ret,
                   n_inputs>>
    /\ UNCHANGED <<timeVars, sendVars>>
    /\ UNCHANGED histVars

\* _bbs_main_loop, line 338, 348-350 and 378-379: the loop ends on a None
\* command or on main_thread_active being false, and the task stops its
\* own workers.
LogicExit(s) ==
    /\ lpc[s] = "main"
    /\ Unwound(s) \/ ~main_thread_active[s]
    /\ stop_worker(s)
    /\ lpc' = [lpc EXCEPT ![s] = "exited"]
    /\ UNCHANGED <<regVars, queueVars, recv_n, recv_caller, recv_ret, echo,
                   line_buffer, decoder, pi_ret, n_inputs>>
    /\ UNCHANGED <<timeVars, sendVars>>
    /\ UNCHANGED histVars

\* ------------------------------------------------- timeouts and the editor

\* Timeouts the callers set, in milliseconds (bbs_handler.py:353, 363), and
\* None.
TimeoutValues == {None, 50, 25000}

\* WebChannel.settimeout, terminal_handler.py:193-194.
settimeout(s, d) ==
    /\ lpc[s] = "main"
    /\ ~Unwound(s)
    /\ chan_timeout[s] # d
    /\ chan_timeout' = [chan_timeout EXCEPT ![s] = d]
    /\ UNCHANGED <<regVars, objVars, chanVars, ml_ret, waited, sendVars>>
    /\ UNCHANGED histVars

\* Time passes while recv is in input_event.wait(timeout=None), line 208,
\* with no input: the timeout kept in _timeout runs out.  The wait was
\* given no timeout, so it goes on.
TimePasses(s) ==
    /\ lpc[s] = "r_wait"
    /\ ~input_event[s]
    /\ chan_timeout[s] # None
    /\ ~waited[s]
    /\ waited' = [waited EXCEPT ![s] = TRUE]
    /\ UNCHANGED <<regVars, objVars, chanVars, ml_ret, chan_timeout, sendVars>>
    /\ UNCHANGED histVars

\* What the client's multi-line editor may submit as data['content'].
MultilinePayloads == {<<"M">>, <<"M", "LF", "M">>}

\* handle_multiline_input_submit, events.py:513-521.
handle_multiline_input_submit(s, content) ==
    /\ transport[s] = "open"
    /\ n_inputs[s] < MaxInputs
    /\ n_inputs' = [n_inputs EXCEPT ![s] = @ + 1]
    /\ IF s \in Keys(client_states)
       THEN /\ input_queue' = [input_queue EXCEPT ![s] = Append(@, content)]
            /\ input_event' = [input_event EXCEPT ![s] = TRUE]
       ELSE UNCHANGED <<input_queue, input_event>>
    /\ UNCHANGED <<regVars, active, main_thread_active, stop_worker_event,
                   output_queue, recv_buffer, lpc, recv_n, recv_caller,
                   recv_ret, echo, line_buffer, decoder, pi_ret, timeVars,
                   sendVars>>
    /\ UNCHANGED histVars

\* The sequence ESC [ ? 2034 h that opens the client's editor, line 295.
OpenEditor == <<"CSI", "d", "h">>

\* The text of line 298-299.
TimedOutText == <<"CR", "LF", "a", "CR", "LF">>

RaiseRet == [kind |-> "raise", val |-> <<>>]

\* process_multiline_input, line 295-297: the sequence is sent and the task
\* blocks in input_event.wait(timeout=300).
CallMultiline(s) ==
    /\ lpc[s] = "main"
    /\ ~Unwound(s)
    /\ Len(output_queue[s]) < MaxSends
    /\ send(s, OpenEditor)
    /\ lpc' = [lpc EXCEPT ![s] = "ml_wait"]
    /\ ml_ret' = [ml_ret EXCEPT ![s] = Pending]
    /\ UNCHANGED <<regVars, objVars, input_queue, recv_buffer, recv_n,
                   recv_caller, recv_ret, echo, line_buffer, decoder, pi_ret,
                   n_inputs, chan_timeout, waited, sendVars>>
    /\ UNCHANGED histVars

\* process_multiline_input, line 297 and 301-303: the wait returns True,
\* the event is cleared and input_queue.popleft() is returned; popleft
\* raises IndexError on an empty deque.
MultilineWake(s) ==
    /\ lpc[s] = "ml_wait"
    /\ input_event[s]
    /\ input_event' = [input_event EXCEPT ![s] = FALSE]
    /\ lpc' = [lpc EXCEPT ![s] = "main"]
    /\ IF input_queue[s] = <<>>
       THEN /\ ml_ret' = [ml_ret EXCEPT ![s] = RaiseRet]
            /\ UNCHANGED input_queue
       ELSE /\ ml_ret' = [ml_ret EXCEPT ![s] = StrRet(Head(input_queue[s]))]
            /\ input_queue' = [input_queue EXCEPT ![s] = Tail(@)]
    /\ UNCHANGED <<regVars, active, main_thread_active, stop_worker_event,
                   output_queue, recv_buffer, recv_n, recv_caller, recv_ret,
                   echo, line_buffer, decoder, pi_ret, n_inputs,
                   chan_timeout, waited, sendVars>>
    /\ UNCHANGED histVars

\* process_multiline_input, line 297-300: 300 seconds pass with the event
\* clear; the error text is sent and None returned.
MultilineTimeout(s) ==
    /\ lpc[s] = "ml_wait"
    /\ ~input_event[s]
    /\ send(s, TimedOutText)
    /\ lpc' = [lpc EXCEPT ![s] = "main"]
    /\ ml_ret' = [ml_ret EXCEPT ![s] = NoneRet]
    /\ UNCHANGED <<regVars, objVars, input_queue, recv_buffer, recv_n,
                   recv_caller, recv_ret, echo, line_buffer, decoder, pi_ret,
                   n_inputs, chan_timeout, waited, sendVars>>
    /\ UNCHANGED histVars

\* ------------------------------------------------------------------ sender

\* Characters of an output fragment.  An introducer stands for its
\* characters: "OSC" for ESC ] G R B B S ; , "APC" for
\* ESC _ G R B B S _ D O W N L O A D ; , "CSI" for ESC [ ? ; "ST" is ESC \ ,
\* "BEL" is \x07, "ESC" a lone escape, "d" a digit; "h" and "l" are the
\* letters, as are "a" and "b".
EscChars == {"OSC", "APC", "CSI", "ST", "ESC"}

\* control_sequence_pattern, line 130-136, tried at position i of f: the
\* length of the match, 0 when there is none.
MatchLen(f, i) ==
    LET n == Len(f)
        osc == {j \in i + 1 .. n : f[j] = "BEL"}
        apc == {j \in i + 1 .. n :
                   /\ f[j] = "ST"
                   /\ \A k \in i + 1 .. j - 1 : f[k] \notin EscChars}
        dec == {j \in i + 2 .. n :
                   /\ f[j] \in {"h", "l"}
                   /\ \A k \in i + 1 .. j - 1 : f[k] = "d"}
        First(js) == CHOOSE j \in js : \A k \in js : j <= k
    IN  IF i > n THEN 0
        ELSE IF f[i] = "OSC" /\ osc # {} THEN First(osc) - i + 1
        ELSE IF f[i] = "APC" /\ apc # {} THEN First(apc) - i + 1
        ELSE IF f[i] = "CSI" /\ dec # {} THEN First(dec) - i + 1
        ELSE 0

\* control_sequence_pattern.fullmatch(part), line 402.
FullMatchMutNever(p) == FALSE

FullMatch(p) == p # <<>> /\ MatchLen(p, 1) = Len(p)

\* control_sequence_pattern.split(text), line 395: with its one capturing
\* group, re.split returns text, match, text, ..., match, text, empty
\* texts included.
RECURSIVE SplitFrom(_, _, _)
SplitFrom(f, i, cur) ==
    IF i > Len(f) THEN <<cur>>
    ELSE LET m == MatchLen(f, i) IN
         IF m > 0
         THEN <<cur, SubSeq(f, i, i + m - 1)>> \o SplitFrom(f, i + m, <<>>)
         ELSE SplitFrom(f, i + 1, Append(cur, f[i]))

SplitMutDropControls(f) ==
    SelectSeq(SplitFrom(f, 1, <<>>), LAMBDA p : ~FullMatch(p))

Split(f) == SplitFrom(f, 1, <<>>)

\* A table whose default, for a name it does not hold, is the slowest rate.
BpsDelaysMutSlowDefault(speed_name) ==
    CASE speed_name = "2400" -> 4
      [] speed_name = "full" -> 0
      [] OTHER -> 32

\* BPS_DELAYS.get(speed_name, 0), line 35-41 and events.py:116, in units of
\* 10/9600 s.
BPS_DELAYS(speed_name) ==
    CASE speed_name = "300" -> 32
      [] speed_name = "2400" -> 4
      [] speed_name = "4800" -> 2
      [] speed_name = "9600" -> 1
      [] speed_name = "full" -> 0
      [] OTHER -> 0

\* Speed names a client may send.
SpeedNames == {"2400", "full", "warp"}

\* handle_set_speed, events.py:109-116.
handle_set_speed(s, speed_name) ==
    /\ transport[s] = "open"
    /\ n_speeds[s] < MaxSpeeds
    /\ n_speeds' = [n_speeds EXCEPT ![s] = @ + 1]
    /\ bps_delay' = IF s \in Keys(client_states)
                    THEN [bps_delay EXCEPT ![s] = BPS_DELAYS(speed_name)]
                    ELSE bps_delay
    /\ UNCHANGED <<regVars, objVars, chanVars, timeVars, spc, text_to_send,
                   parts, part, part_rest, wire, frag_start, run_start,
                   sent_log>>
    /\ UNCHANGED histVars

\* handle_set_speed, with the profile name it stores in handler.speed
\* (events.py:115) noted.
handle_set_speed_noted(s, speed_name) ==
    /\ transport[s] = "open"
    /\ n_speeds[s] < MaxSpeeds
    /\ n_speeds' = [n_speeds EXCEPT ![s] = @ + 1]
    /\ IF s \in Keys(client_states)
       THEN /\ speed' = [speed EXCEPT ![s] = speed_name]
            /\ bps_delay' = [bps_delay EXCEPT ![s] = BPS_DELAYS(speed_name)]
       ELSE UNCHANGED <<speed, bps_delay>>
    /\ UNCHANGED <<regVars, objVars, chanVars, timeVars, spc, text_to_send,
                   parts, part, part_rest, wire, frag_start, run_start,
                   sent_log>>
    /\ UNCHANGED <<sent_ctx, typed, members, logVars>>

\* What the transport of a session is given: socketio.emit('server_output',
\* data, to=sid), and the pacing socketio.sleep(delay) between emits.
Emit(data) == [kind |-> "emit", data |-> data, delay |-> 0]
Sleep(d) == [kind |-> "sleep", data |-> <<>>, delay |-> d]

\* Fragments the callers of send hand over.
SendFragments ==
    { <<"a", "b">>,
      <<"a", "CSI", "d", "h", "b">>,
      <<"OSC", "a", "BEL", "APC", "a", "ST">>,
      <<"a", "OSC", "b">> }

\* A caller of channel.send: the Logic Task, or another greenlet that
\* notifies the session.  send does not block, so a call is one step.
CallSend(s, who, f) ==
    /\ who = "logic" => lpc[s] = "main"
    /\ Len(sent_log[s]) < MaxSends
    /\ send(s, f)
    /\ sent_log' = [sent_log EXCEPT ![s] = Append(@, DecodeIgnore(f))]
    /\ UNCHANGED histVars
    /\ UNCHANGED <<regVars, objVars, input_queue, recv_buffer, taskVars,
                   timeVars, spc, text_to_send, parts, part, part_rest,
                   bps_delay, n_speeds, wire, frag_start, run_start>>

\* A worker that takes the next fragment whether or not the teardown flag
\* is set.
SenderTopMutNoStop(s) ==
    /\ spc[s] = "top"
    /\ output_queue[s] # <<>>
    /\ output_queue' = [output_queue EXCEPT ![s] = Tail(@)]
    /\ text_to_send' = [text_to_send EXCEPT ![s] = Head(output_queue[s])]
    /\ parts' = [parts EXCEPT ![s] = Split(Head(output_queue[s]))]
    /\ frag_start' = [frag_start EXCEPT ![s] = Len(wire[s])]
    /\ spc' = [spc EXCEPT ![s] = "part"]
    /\ UNCHANGED <<regVars, objVars, input_queue, recv_buffer, taskVars,
                   timeVars, part, part_rest, bps_delay, n_speeds, wire,
                   run_start, sent_log, histVars>>

\* _sender_worker, line 390-395: the loop test, popleft and split.  With
\* an empty queue the worker sleeps 10 ms and tries again (line 417-418),
\* which changes nothing.
SenderTop(s) ==
    /\ spc[s] = "top"
    /\ IF stop_worker_event[s]
       THEN /\ spc' = [spc EXCEPT ![s] = "exited"]
            /\ UNCHANGED <<output_queue, text_to_send, parts, frag_start>>
       ELSE /\ output_queue[s] # <<>>
            /\ output_queue' = [output_queue EXCEPT ![s] = Tail(@)]
            /\ text_to_send' =
                  [text_to_send EXCEPT ![s] = Head(output_queue[s])]
            /\ parts' = [parts EXCEPT ![s] = Split(Head(output_queue[s]))]
            /\ frag_start' = [frag_start EXCEPT ![s] = Len(wire[s])]
            /\ spc' = [spc EXCEPT ![s] = "part"]
    /\ UNCHANGED <<regVars, objVars, input_queue, recv_buffer, taskVars,
                   timeVars, part, part_rest, bps_delay, n_speeds, wire,
                   run_start, sent_log>>
    /\ UNCHANGED histVars

\* _sender_worker, line 397-407 and 414-416: the next part.
SenderPart(s) ==
    /\ spc[s] = "part"
    /\ IF parts[s] = <<>>
       THEN /\ spc' = [spc EXCEPT ![s] = "top"]
            /\ UNCHANGED <<parts, part, part_rest, wire, run_start>>
       ELSE LET p == Head(parts[s]) IN
            /\ parts' = [parts EXCEPT ![s] = Tail(@)]
            /\ IF p = <<>>
               THEN UNCHANGED <<spc, part, part_rest, wire, run_start>>
               ELSE IF FullMatch(p) \/ bps_delay[s] = 0
               THEN /\ wire' = [wire EXCEPT ![s] = Append(@, Emit(p))]
                    /\ UNCHANGED <<spc, part, part_rest, run_start>>
               ELSE /\ part' = [part EXCEPT ![s] = p]
                    /\ part_rest' = [part_rest EXCEPT ![s] = p]
                    /\ run_start' = [run_start EXCEPT ![s] = Len(wire[s])]
                    /\ spc' = [spc EXCEPT ![s] = "char"]
                    /\ UNCHANGED wire
    /\ UNCHANGED <<regVars, objVars, queueVars, taskVars, timeVars,
                   text_to_send, bps_delay, n_speeds, frag_start, sent_log>>
    /\ UNCHANGED histVars

\* A worker that emits what is left of the run in one piece.
SenderCharMutWhole(s) ==
    /\ spc[s] = "char"
    /\ IF part_rest[s] = <<>> \/ stop_worker_event[s]
       THEN /\ spc' = [spc EXCEPT ![s] = "part"]
            /\ UNCHANGED <<part_rest, wire>>
       ELSE /\ wire' = [wire EXCEPT ![s] = Append(@, Emit(part_rest[s]))]
            /\ part_rest' = [part_rest EXCEPT ![s] = <<>>]
            /\ spc' = [spc EXCEPT ![s] = "sleep"]
    /\ UNCHANGED <<regVars, objVars, queueVars, taskVars, timeVars,
                   text_to_send, parts, part, bps_delay, n_speeds,
                   frag_start, run_start, sent_log>>
    /\ UNCHANGED histVars

\* _sender_worker, line 408-412: the next character of the run, unless the
\* stop event is set.
SenderChar(s) ==
    /\ spc[s] = "char"
    /\ IF part_rest[s] = <<>> \/ stop_worker_event[s]
       THEN /\ spc' = [spc EXCEPT ![s] = "part"]
            /\ UNCHANGED <<part_rest, wire>>
       ELSE /\ wire' = [wire EXCEPT ![s] =
                          Append(@, Emit(<<Head(part_rest[s])>>))]
            /\ part_rest' = [part_rest EXCEPT ![s] = Tail(@)]
            /\ spc' = [spc EXCEPT ![s] = "sleep"]
    /\ UNCHANGED <<regVars, objVars, queueVars, taskVars, timeVars,
                   text_to_send, parts, part, bps_delay, n_speeds,
                   frag_start, run_start, sent_log>>
    /\ UNCHANGED histVars

\* A worker whose pause ends only when the client has sent something.
SenderSleepMutAwaitsClient(s) ==
    /\ spc[s] = "sleep"
    /\ input_event[s]
    /\ wire' = [wire EXCEPT ![s] = Append(@, Sleep(bps_delay[s]))]
    /\ spc' = [spc EXCEPT ![s] = "char"]
    /\ UNCHANGED <<regVars, objVars, queueVars, taskVars, timeVars,
                   text_to_send, parts, part, part_rest, bps_delay, n_speeds,
                   frag_start, run_start, sent_log>>
    /\ UNCHANGED histVars

\* _sender_worker, line 413: socketio.sleep(self.bps_delay).
SenderSleep(s) ==
    /\ spc[s] = "sleep"
    /\ wire' = [wire EXCEPT ![s] = Append(@, Sleep(bps_delay[s]))]
    /\ spc' = [spc EXCEPT ![s] = "char"]
    /\ UNCHANGED <<regVars, objVars, queueVars, taskVars, timeVars,
                   text_to_send, parts, part, part_rest, bps_delay, n_speeds,
                   frag_start, run_start, sent_log>>
    /\ UNCHANGED histVars

\* ---------------------------------------------------------- logging capture

\* handle_toggle_logging, events.py:150-186: capture is switched on with an
\* empty buffer, or switched off and the buffer taken for the log file.
handle_toggle_logging(s) ==
    /\ transport[s] = "open"
    /\ IF s \in Keys(client_states)
       THEN /\ is_logging' = [is_logging EXCEPT ![s] = ~@]
            /\ log_buffer' = [log_buffer EXCEPT ![s] = <<>>]
       ELSE UNCHANGED logVars
    /\ UNCHANGED <<regVars, objVars, chanVars, timeVars, sendVars, sent_ctx,
                   typed, members, speed>>

\* A send that puts the newest fragment first in the capture buffer.
SendLoggedMutLogFirst(s, data) ==
    /\ send(s, data)
    /\ log_buffer' = IF is_logging[s]
                     THEN [log_buffer EXCEPT ![s] = <<DecodeIgnore(data)>> \o @]
                     ELSE log_buffer

\* WebChannel.send, terminal_handler.py:196-203, with the capture of line
\* 201-202.  There is no blocking call in it: one step.
send_logged(s, data) ==
    /\ send(s, data)
    /\ log_buffer' = IF is_logging[s]
                     THEN [log_buffer EXCEPT ![s] = Append(@, DecodeIgnore(data))]
                     ELSE log_buffer

\* A caller of channel.send, as CallSend, on a session that may capture.
CallSendLogged(s, who, f) ==
    /\ who = "logic" => lpc[s] = "main"
    /\ Len(sent_log[s]) < MaxSends
    /\ send_logged(s, f)
    /\ sent_log' = [sent_log EXCEPT ![s] = Append(@, DecodeIgnore(f))]
    /\ UNCHANGED <<regVars, objVars, input_queue, recv_buffer, taskVars,
                   timeVars, spc, text_to_send, parts, part, part_rest,
                   bps_delay, n_speeds, wire, frag_start, run_start>>
    /\ UNCHANGED <<sent_ctx, typed, members, is_logging, speed>>

\* ---------------------------------------------------------------- teardown

\* Fragments of the teardown runs: a run of two characters, a control
\* sequence and a second run; and a run alone.
DownFragments ==
    { <<"a", "b", "CSI", "d", "h", "b">>,
      <<"a", "b">> }

\* A caller of channel.send, as CallSend, with bps_delay and the channel's
\* active flag at the moment of the call noted.
CallSendNoted(s, who, f) ==
    /\ who = "logic" => lpc[s] = "main"
    /\ Len(sent_log[s]) < MaxSends
    /\ send(s, f)
    /\ sent_log' = [sent_log EXCEPT ![s] = Append(@, DecodeIgnore(f))]
    /\ sent_ctx' = [sent_ctx EXCEPT ![s] =
                       Append(@, [delay |-> bps_delay[s],
                                  active |-> active[s]])]
    /\ UNCHANGED <<regVars, objVars, input_queue, recv_buffer, taskVars,
                   timeVars, spc, text_to_send, parts, part, part_rest,
                   bps_delay, n_speeds, wire, frag_start, run_start, typed,
                   members, logVars, speed>>

\* The Sender Task stands before a socketio.emit call (line 404, 411 or
\* 415).
AtEmit(s) ==
    \/ /\ spc[s] = "part"
       /\ parts[s] # <<>>
       /\ Head(parts[s]) # <<>>
       /\ FullMatch(Head(parts[s])) \/ bps_delay[s] = 0
    \/ /\ spc[s] = "char"
       /\ part_rest[s] # <<>>
       /\ ~stop_worker_event[s]

\* _sender_worker, line 391-418: socketio.emit raises a transport error.
\* The try statement has the one handler, except IndexError; any other
\* exception leaves _sender_worker, and the task is over.
SenderEmitRaises(s) ==
    /\ AtEmit(s)
    /\ spc' = [spc EXCEPT ![s] = "crashed"]
    /\ UNCHANGED <<regVars, objVars, queueVars, taskVars, timeVars,
                   text_to_send, parts, part, part_rest, bps_delay, n_speeds,
                   wire, frag_start, run_start, sent_log, histVars>>

\* An exception that leaves the task: no handler, no stop_worker.
LogicRaiseMutEscape(s) ==
    /\ lpc[s] = "main"
    /\ main_thread_active[s]
    /\ ~Unwound(s)
    /\ lpc' = [lpc EXCEPT ![s] = "exited"]
    /\ UNCHANGED <<regVars, objVars, queueVars, recv_n, recv_caller, recv_ret,
                   echo, line_buffer, decoder, pi_ret, n_inputs, timeVars,
                   sendVars, histVars>>

\* _bbs_main_loop, line 317 and 375-381: the business logic raises an
\* Exception inside the try statement; except Exception logs it and the
\* finally clause stops the workers.
LogicRaise(s) ==
    /\ lpc[s] = "main"
    /\ main_thread_active[s]
    /\ ~Unwound(s)
    /\ stop_worker(s)
    /\ lpc' = [lpc EXCEPT ![s] = "exited"]
    /\ UNCHANGED <<regVars, queueVars, recv_n, recv_caller, recv_ret, echo,
                   line_buffer, decoder, pi_ret, n_inputs, timeVars,
                   sendVars, histVars>>

\* ------------------------------------------------------------ specifications

RegInit ==
    /\ client_states = <<>>
    /\ current_webapp_clients = 0
    /\ lock_holder = None
    /\ max_clients \in 0 .. MaxCeiling
    /\ transport = [s \in Sids |-> "none"]
    /\ force_disconnect = [s \in Sids |-> 0]
    /\ room_closed = [s \in Sids |-> FALSE]
    /\ session_username = [s \in Sids |-> ""]
    /\ cpc = [s \in Sids |-> "idle"]
    /\ sid_to_disconnect = [s \in Sids |-> None]
    /\ dpc = [s \in Sids |-> "idle"]
    /\ d_effect = [s \in Sids |-> [lowered |-> FALSE, removed |-> FALSE]]
    /\ members = NotCalled

\* WebTerminalHandler.__init__ and WebChannel.__init__.
ObjInit ==
    /\ active = [s \in Sids |-> TRUE]
    /\ main_thread_active = [s \in Sids |-> TRUE]
    /\ input_event = [s \in Sids |-> FALSE]
    /\ stop_worker_event = [s \in Sids |-> FALSE]
    /\ input_queue = [s \in Sids |-> <<>>]
    /\ output_queue = [s \in Sids |-> <<>>]
    /\ recv_buffer = [s \in Sids |-> <<>>]
    /\ is_logging = [s \in Sids |-> FALSE]
    /\ log_buffer = [s \in Sids |-> <<>>]

\* The Logic Task before its first read.
TaskInit ==
    /\ lpc = [s \in Sids |-> "main"]
    /\ recv_n = [s \in Sids |-> 1]
    /\ recv_caller = [s \in Sids |-> "logic"]
    /\ recv_ret = [s \in Sids |-> <<>>]
    /\ echo = [s \in Sids |-> TRUE]
    /\ line_buffer = [s \in Sids |-> <<>>]
    /\ decoder = [s \in Sids |-> <<>>]
    /\ pi_ret = [s \in Sids |-> Pending]
    /\ n_inputs = [s \in Sids |-> 0]
    /\ ml_ret = [s \in Sids |-> Pending]
    /\ chan_timeout = [s \in Sids |-> None]
    /\ waited = [s \in Sids |-> FALSE]

\* The Sender Task before its first turn; speed 'full' (line 111-113).
SenderInit ==
    /\ spc = [s \in Sids |-> "top"]
    /\ text_to_send = [s \in Sids |-> <<>>]
    /\ parts = [s \in Sids |-> <<>>]
    /\ part = [s \in Sids |-> <<>>]
    /\ part_rest = [s \in Sids |-> <<>>]
    /\ bps_delay = [s \in Sids |-> 0]
    /\ speed = [s \in Sids |-> "full"]
    /\ n_speeds = [s \in Sids |-> 0]
    /\ wire = [s \in Sids |-> <<>>]
    /\ frag_start = [s \in Sids |-> 0]
    /\ run_start = [s \in Sids |-> 0]
    /\ sent_log = [s \in Sids |-> <<>>]
    /\ sent_ctx = [s \in Sids |-> <<>>]

\* No line-reading script: the clients type what the actions choose.
NoScript == typed = <<>>

Init == RegInit /\ ObjInit /\ TaskInit /\ SenderInit /\ NoScript

Next ==
    \/ \E c \in Sids, u \in Usernames : EventConnect(c, u)
    \/ \E c \in Sids : ConnectDuplicateCheck(c)
    \/ \E c \in Sids : ConnectEvictReturn(c)
    \/ \E c \in Sids : ConnectLock(c)
    \/ \E c \in Sids : ConnectCheck(c)
    \/ \E c \in Sids : ConnectInsert(c)
    \/ \E s \in Sids : EventDisconnect(s)
    \/ \E s \in Sids : DisconnectDecrement(s)
    \/ \E s \in Sids : DisconnectRemove(s)

Spec == Init /\ [][Next]_vars

\* The session that SpecChan follows: the first one admitted.
ChanSid == CHOOSE s \in Sids : \A t \in Sids : s <= t

\* The registry with the administrator, who may kick the first session, at
\* any time and more than once (admin/routes.py:430).
NoticeNext ==
    \/ Next
    \/ kick_user_session(ChanSid)

\* The notices do not depend on the ceiling: it is left unbounded.
NoticeInit == Init /\ max_clients = 0

SpecNotice == NoticeInit /\ [][NoticeNext]_vars

\* One connection from its connect event to its disconnect, and the
\* set_speed events of its client, which may arrive before the handler is
\* registered.
SpeedNext ==
    \/ \E u \in Usernames : EventConnect(ChanSid, u)
    \/ ConnectDuplicateCheck(ChanSid)
    \/ ConnectLock(ChanSid)
    \/ ConnectCheck(ChanSid)
    \/ ConnectInsert(ChanSid)
    \/ \E n \in SpeedNames : handle_set_speed_noted(ChanSid, n)
    \/ EventDisconnect(ChanSid)
    \/ DisconnectDecrement(ChanSid)
    \/ DisconnectRemove(ChanSid)

SpecSpeed == NoticeInit /\ [][SpeedNext]_vars

\* The registry with a caller of the presence listing.
PresenceNext ==
    \/ Next
    \/ CallOnlineMembers

SpecPresence == NoticeInit /\ [][PresenceNext]_vars

\* One connection admitted by handle_connect on an empty server: the state
\* Spec reaches by EventConnect .. ConnectInsert of the first sid.  The
\* ceiling is read by handle_connect alone; it is left unbounded here.
ChanInit ==
    /\ client_states = <<ChanSid>>
    /\ current_webapp_clients = 1
    /\ lock_holder = None
    /\ max_clients = 0
    /\ transport = [s \in Sids |-> IF s = ChanSid THEN "open" ELSE "none"]
    /\ force_disconnect = [s \in Sids |-> 0]
    /\ room_closed = [s \in Sids |-> FALSE]
    /\ session_username = [s \in Sids |-> IF s = ChanSid THEN "alice" ELSE ""]
    /\ cpc = [s \in Sids |-> IF s = ChanSid THEN "done" ELSE "idle"]
    /\ sid_to_disconnect = [s \in Sids |-> None]
    /\ dpc = [s \in Sids |-> "idle"]
    /\ d_effect = [s \in Sids |-> [lowered |-> FALSE, removed |-> FALSE]]
    /\ members = NotCalled
    /\ ObjInit
    /\ TaskInit
    /\ SenderInit
    /\ NoScript

ChanNext ==
    \/ \E d \in InputFragments : handle_client_input(ChanSid, d)
    \/ \E e \in BOOLEAN : CallProcessInput(ChanSid, e)
    \/ \E n \in 1 .. MaxRecvN : CallRecv(ChanSid, n)
    \/ ProcessInputWhile(ChanSid)
    \/ RecvWhile(ChanSid)
    \/ RecvQueueCheck(ChanSid)
    \/ RecvWait(ChanSid)
    \/ RecvClear(ChanSid)
    \/ RecvActiveCheck(ChanSid)
    \/ RecvPop(ChanSid)
    \/ RecvReturn(ChanSid)
    \/ ProcessInputChar(ChanSid)
    \/ ProcessInputFinal(ChanSid)
    \/ LogicLogoff(ChanSid)
    \/ LogicExit(ChanSid)
    \/ kick_user_session(ChanSid)
    \/ EventDisconnect(ChanSid)
    \/ DisconnectDecrement(ChanSid)
    \/ DisconnectRemove(ChanSid)

SpecChan == ChanInit /\ [][ChanNext]_vars

\* The admitted session of SpecChan with the timed reads of the article
\* list (bbs_handler.py:351-409) and the multi-line editor.
TimedNext ==
    \/ \E d \in InputFragments : handle_client_input(ChanSid, d)
    \/ \E m \in MultilinePayloads : handle_multiline_input_submit(ChanSid, m)
    \/ \E d \in TimeoutValues : settimeout(ChanSid, d)
    \/ \E n \in 1 .. MaxRecvN : CallRecv(ChanSid, n)
    \/ RecvWhile(ChanSid)
    \/ RecvQueueCheck(ChanSid)
    \/ RecvWait(ChanSid)
    \/ RecvClear(ChanSid)
    \/ RecvActiveCheck(ChanSid)
    \/ RecvPop(ChanSid)
    \/ RecvReturn(ChanSid)
    \/ TimePasses(ChanSid)
    \/ CallMultiline(ChanSid)
    \/ MultilineWake(ChanSid)
    \/ MultilineTimeout(ChanSid)
    \/ LogicExit(ChanSid)
    \/ EventDisconnect(ChanSid)
    \/ DisconnectDecrement(ChanSid)
    \/ DisconnectRemove(ChanSid)

SpecTimed == ChanInit /\ [][TimedNext]_vars

\* The admitted session of SpecChan with its Sender Task, the callers of
\* send, the client's speed setting and the teardown.
SendNext ==
    \/ \E w \in {"logic", "notifier"}, f \in SendFragments :
          CallSend(ChanSid, w, f)
    \/ \E n \in SpeedNames : handle_set_speed(ChanSid, n)
    \/ SenderTop(ChanSid)
    \/ SenderPart(ChanSid)
    \/ SenderChar(ChanSid)
    \/ SenderSleep(ChanSid)
    \/ EventDisconnect(ChanSid)
    \/ DisconnectDecrement(ChanSid)
    \/ DisconnectRemove(ChanSid)

SpecSend == ChanInit /\ [][SendNext]_vars

\* The admitted session of SpecChan with its Sender Task while the session
\* is torn down: by the client's disconnect, or by its Logic Task ending on
\* an exception; and a transport error in the Sender Task itself.
DownNext ==
    \/ \E w \in {"logic", "notifier"}, f \in DownFragments :
          CallSendNoted(ChanSid, w, f)
    \/ \E n \in SpeedNames : handle_set_speed(ChanSid, n)
    \/ SenderTop(ChanSid)
    \/ SenderPart(ChanSid)
    \/ SenderChar(ChanSid)
    \/ SenderSleep(ChanSid)
    \/ SenderEmitRaises(ChanSid)
    \/ LogicRaise(ChanSid)
    \/ LogicExit(ChanSid)
    \/ EventDisconnect(ChanSid)
    \/ DisconnectDecrement(ChanSid)
    \/ DisconnectRemove(ChanSid)

SpecDown == ChanInit /\ [][DownNext]_vars

\* The two sessions of the runs that follow two: the first two admitted.
PairSids == {ChanSid, ChanSid + 1}

\* Two connections of two users admitted on an empty server: the state
\* Spec reaches by EventConnect .. ConnectInsert of the first sid and then
\* of the second.
TwoAdmitted ==
    /\ client_states = <<ChanSid, ChanSid + 1>>
    /\ current_webapp_clients = 2
    /\ lock_holder = None
    /\ max_clients = 0
    /\ transport = [s \in Sids |-> IF s \in PairSids THEN "open" ELSE "none"]
    /\ force_disconnect = [s \in Sids |-> 0]
    /\ room_closed = [s \in Sids |-> FALSE]
    /\ session_username =
          [s \in Sids |-> IF s = ChanSid THEN "alice"
                          ELSE IF s = ChanSid + 1 THEN "bob" ELSE ""]
    /\ cpc = [s \in Sids |-> IF s \in PairSids THEN "done" ELSE "idle"]
    /\ sid_to_disconnect = [s \in Sids |-> None]
    /\ dpc = [s \in Sids |-> "idle"]
    /\ d_effect = [s \in Sids |-> [lowered |-> FALSE, removed |-> FALSE]]
    /\ members = NotCalled
    /\ ObjInit
    /\ TaskInit
    /\ SenderInit

PairInit == TwoAdmitted /\ NoScript

\* Two admitted sessions side by side: their clients' input events, their
\* disconnects, and their Logic Tasks ending, on an exception or after a
\* teardown.
PairNext ==
    \E s \in PairSids :
        \/ \E d \in InputFragments : handle_client_input(s, d)
        \/ LogicRaise(s)
        \/ LogicExit(s)
        \/ EventDisconnect(s)
        \/ DisconnectDecrement(s)
        \/ DisconnectRemove(s)

SpecPair == PairInit /\ [][PairNext]_vars

\* A step of the Logic Task of t inside recv, and one of its Sender Task.
LogicStep(t) ==
    \/ RecvWhile(t) \/ RecvQueueCheck(t) \/ RecvWait(t) \/ RecvClear(t)
    \/ RecvActiveCheck(t) \/ RecvPop(t) \/ RecvReturn(t)

SenderStep(t) ==
    SenderTop(t) \/ SenderPart(t) \/ SenderChar(t) \/ SenderSleep(t)

\* Two admitted sessions with their tasks side by side.  The first waits:
\* its Logic Task calls recv and gets no input, its client sets a slow
\* speed and a notifier sends it one fragment.  The second is served
\* meanwhile: its client types once and disconnects, its Logic Task reads
\* and sends one fragment.
WaitSid == ChanSid
ServedSid == ChanSid + 1

StallNext ==
    \/ n_speeds[WaitSid] = 0 /\ handle_set_speed(WaitSid, "2400")
    \/ sent_log[WaitSid] = <<>>
          /\ CallSend(WaitSid, "notifier", <<"a", "b">>)
    \/ sent_log[ServedSid] = <<>>
          /\ CallSend(ServedSid, "logic", <<"a", "b">>)
    \/ n_inputs[ServedSid] = 0 /\ handle_client_input(ServedSid, <<"a">>)
    \/ EventDisconnect(ServedSid)
    \/ DisconnectDecrement(ServedSid)
    \/ DisconnectRemove(ServedSid)
    \/ \E s \in PairSids : CallRecv(s, 1)
    \/ \E s \in PairSids : RecvWhile(s)
    \/ \E s \in PairSids : RecvQueueCheck(s)
    \/ \E s \in PairSids : RecvWait(s)
    \/ \E s \in PairSids : RecvClear(s)
    \/ \E s \in PairSids : RecvActiveCheck(s)
    \/ \E s \in PairSids : RecvPop(s)
    \/ \E s \in PairSids : RecvReturn(s)
    \/ \E s \in PairSids : SenderTop(s)
    \/ \E s \in PairSids : SenderPart(s)
    \/ \E s \in PairSids : SenderChar(s)
    \/ \E s \in PairSids : SenderSleep(s)

SpecStall == PairInit /\ [][StallNext]_vars

\* One admitted session that is not torn down, with the callers of send,
\* the client's speed setting and the Sender Task.  The Sender Task is a
\* greenlet of its own: socketio.sleep returns when its time is over, and
\* whenever the task can take a step it takes one in the end.
FlowNext ==
    \/ \E w \in {"logic", "notifier"}, f \in SendFragments :
          CallSend(ChanSid, w, f)
    \/ \E n \in SpeedNames : handle_set_speed(ChanSid, n)
    \/ SenderTop(ChanSid)
    \/ SenderPart(ChanSid)
    \/ SenderChar(ChanSid)
    \/ SenderSleep(ChanSid)

FlowFair == WF_vars(SenderStep(ChanSid))

SpecFlow == ChanInit /\ [][FlowNext]_vars /\ FlowFair

\* One admitted session whose client switches the logging capture on and
\* off, with the two callers of send and the Sender Task at the initial
\* speed, at which it emits every part whole.
LogNext ==
    \/ handle_toggle_logging(ChanSid)
    \/ \E w \in {"logic", "notifier"}, f \in SendFragments :
          CallSendLogged(ChanSid, w, f)
    \/ SenderTop(ChanSid)
    \/ SenderPart(ChanSid)

SpecLog == ChanInit /\ [][LogNext]_vars

\* The Logic Task of s stands where a greenlet gives way to the others: in
\* input_event.wait, or in the business logic between two channel calls.
AtYield(s) == lpc[s] \in {"main", "r_wait", "exited"}

\* One admitted session whose Logic Task calls recv, its client's input and
\* its disconnect.  The handlers of the client's events are greenlets: they
\* run while the Logic Task has given way.
EndNext ==
    \/ \E d \in InputFragments :
          AtYield(ChanSid) /\ handle_client_input(ChanSid, d)
    \/ AtYield(ChanSid) /\ EventDisconnect(ChanSid)
    \/ AtYield(ChanSid) /\ DisconnectDecrement(ChanSid)
    \/ AtYield(ChanSid) /\ DisconnectRemove(ChanSid)
    \/ \E n \in 1 .. MaxRecvN : CallRecv(ChanSid, n)
    \/ RecvWhile(ChanSid)
    \/ RecvQueueCheck(ChanSid)
    \/ RecvWait(ChanSid)
    \/ RecvClear(ChanSid)
    \/ RecvActiveCheck(ChanSid)
    \/ RecvPop(ChanSid)
    \/ RecvReturn(ChanSid)

SpecEnd == ChanInit /\ [][EndNext]_vars

\* One admitted session that is not torn down: its client types, and its
\* Logic Task keeps calling recv(1).  The Logic Task is a greenlet of its
\* own: whenever it can take a step it takes one in the end, whatever the
\* input handler does meanwhile.
WakeNext ==
    \/ \E d \in InputFragments : handle_client_input(ChanSid, d)
    \/ CallRecv(ChanSid, 1)
    \/ RecvWhile(ChanSid)
    \/ RecvQueueCheck(ChanSid)
    \/ RecvWait(ChanSid)
    \/ RecvClear(ChanSid)
    \/ RecvActiveCheck(ChanSid)
    \/ RecvPop(ChanSid)
    \/ RecvReturn(ChanSid)

WakeFair ==
    /\ WF_vars(CallRecv(ChanSid, 1))
    /\ WF_vars(LogicStep(ChanSid))

SpecWake == ChanInit /\ [][WakeNext]_vars /\ WakeFair

\* What a client may type in one client_input event of a line-reading run:
\* characters of one, two and three bytes, erasures of each and on an empty
\* line, both terminators, and text after a terminator.
LineFragments ==
    { <<"a">>,
      <<"W", "BS">>,
      <<"alpha", "DEL">>,
      <<"BS", "a", "CR">>,
      <<"a", "W", "alpha", "LF">>,
      <<"W", "CR", "a">> }

\* The scripts of a line-reading run: what the client of each of the two
\* sessions sends, event by event.
Scripts == UNION {[1 .. n -> LineFragments] : n \in 0 .. MaxInputs}

\* The session that reads with process_input and the one that reads with
\* hide_process_input.
EchoSid == ChanSid
HideSid == ChanSid + 1

\* The client of s sends the next event of the script.
ClientTypes(s) ==
    /\ n_inputs[s] < Len(typed)
    /\ handle_client_input(s, typed[n_inputs[s] + 1])

\* The two sessions share nothing, so a run of both is one of either
\* followed by one of the other: the echoing session runs first, and the
\* hiding one starts when the first has had the whole script and stands
\* between two reads or waits in recv.
HideNotBegun ==
    /\ n_inputs[HideSid] = 0
    /\ lpc[HideSid] = "main"
    /\ pi_ret[HideSid] = Pending

EchoAtRest ==
    /\ n_inputs[EchoSid] = Len(typed)
    /\ \/ lpc[EchoSid] = "main"
       \/ lpc[EchoSid] = "r_wait" /\ ~input_event[EchoSid]

Turn(s) == IF s = EchoSid THEN HideNotBegun ELSE EchoAtRest

LineNext ==
    \E s \in PairSids :
        \/ Turn(s) /\ ClientTypes(s)
        \/ Turn(s) /\ CallProcessInput(s, s = EchoSid)
        \/ Turn(s) /\ ProcessInputWhile(s)
        \/ Turn(s) /\ RecvWhile(s)
        \/ Turn(s) /\ RecvQueueCheck(s)
        \/ Turn(s) /\ RecvWait(s)
        \/ Turn(s) /\ RecvClear(s)
        \/ Turn(s) /\ RecvActiveCheck(s)
        \/ Turn(s) /\ RecvPop(s)
        \/ Turn(s) /\ RecvReturn(s)
        \/ Turn(s) /\ ProcessInputChar(s)
        \/ Turn(s) /\ ProcessInputFinal(s)

LineInit == TwoAdmitted /\ typed \in Scripts

SpecLine == LineInit /\ [][LineNext]_vars

\* What a client that ends its lines with CR, with LF or with both may
\* type in one client_input event.
EndingFragments ==
    { <<"a", "CR", "LF">>,
      <<"a", "CR">>,
      <<"LF", "a">>,
      <<"LF">>,
      <<"CR", "LF", "a", "LF">> }

EndingScripts == UNION {[1 .. n -> EndingFragments] : n \in 0 .. MaxInputs}

\* The first session reads lines, echoing or not, and its client sends the
\* events of such a script.
EndingNext ==
    \/ ClientTypes(EchoSid)
    \/ \E e \in BOOLEAN : CallProcessInput(EchoSid, e)
    \/ ProcessInputWhile(EchoSid)
    \/ RecvWhile(EchoSid)
    \/ RecvQueueCheck(EchoSid)
    \/ RecvWait(EchoSid)
    \/ RecvClear(EchoSid)
    \/ RecvActiveCheck(EchoSid)
    \/ RecvPop(EchoSid)
    \/ RecvReturn(EchoSid)
    \/ ProcessInputChar(EchoSid)
    \/ ProcessInputFinal(EchoSid)

EndingInit == TwoAdmitted /\ typed \in EndingScripts

SpecEnding == EndingInit /\ [][EndingNext]_vars

\* ------------------------------------------------------------------ claims

\* No SocketIO connect or disconnect handler is partway through.
Quiescent ==
    \A s \in Sids : /\ cpc[s] \in {"idle", "done", "rejected"}
                    /\ dpc[s] \in {"idle", "done"}

\* C1: in every reachable state the registry holds at most one session for
\* any non-guest username.
C1_OnePerIdentity ==
    \A a, b \in Keys(client_states) :
        (a # b /\ ~IsGuest(session_username[a]))
            => session_username[a] # session_username[b]

\* C2: two connect handlers carrying the same non-guest username never both
\* end up registered: once both have run to their end, with no disconnect
\* under way, at most one of the two sessions is in the registry.
C2_AdmissionAtomic ==
    \A a, b \in Sids :
        (/\ a # b
         /\ Quiescent
         /\ cpc[a] = "done" /\ cpc[b] = "done"
         /\ session_username[a] = session_username[b]
         /\ ~IsGuest(session_username[a]))
            => ~({a, b} \subseteq Keys(client_states))

\* C3: a connect handled while the admission counter is at a non-zero
\* ceiling evicts nobody (it sends no notice and starts no disconnect of
\* another session), and a connect that was rejected has evicted nobody.
C3_FullServerRejects ==
    [][\A c \in Sids :
          /\ (ConnectDuplicateCheck(c)
                /\ CeilingReached(current_webapp_clients))
               => (dpc' = dpc /\ force_disconnect' = force_disconnect)
          /\ cpc'[c] = "rejected" => sid_to_disconnect'[c] = None]_vars

\* C4: removal is idempotent: a handle_disconnect run that has ended lowered
\* the counter exactly when it removed a session from the registry, so a
\* disconnect for a sid that is not registered changes neither.
C4_RemoveIdempotent ==
    \A s \in Sids :
        dpc[s] = "done" => (d_effect[s].lowered <=> d_effect[s].removed)

\* C5: whenever no connect or disconnect handler is partway through, the
\* admission counter equals the number of registry entries.
C5_CounterIsRegistrySize ==
    Quiescent => current_webapp_clients = Len(client_states)

\* C6: with a non-zero ceiling, the registry never holds more sessions than
\* the ceiling once the handlers of the events so far have run to their end.
C6_CeilingNeverExceeded ==
    (Quiescent /\ max_clients > 0) => Len(client_states) <= max_clients

\* C7: a kick of a session whose Logic Task is blocked in recv on an empty
\* inbox wakes that recv with end-of-stream by itself: right after the kick
\* the channel is inactive and the wake signal is set.
C7_KickWakesBlockedRecv ==
    [][\A s \in Sids :
          (/\ kick_user_session(s)
           /\ KickFound(s)
           /\ lpc[s] = "r_wait"
           /\ input_queue[s] = <<>>
           /\ ~input_event[s])
              => (~active'[s] /\ input_event'[s])]_vars

\* C8: once kick(id) has returned true the session is inactive, is out of
\* the registry and of the presence listing, and the admission counter is
\* one lower.
C8_KickRemovesSession ==
    [][\A s \in Sids :
          (kick_user_session(s) /\ KickFound(s))
              => (/\ ~active'[s]
                  /\ s \notin Keys(client_states')
                  /\ s \notin get_webapp_online_members'
                  /\ current_webapp_clients' = current_webapp_clients - 1)
      ]_vars

\* C9: once the channel is closed, every process_input or
\* hide_process_input call that returns, returns None, never a string.
C9_LineReadNoneAfterClose ==
    [][\A s \in Sids :
          (/\ ~active[s]
           /\ pi_ret[s].kind = "pending"
           /\ pi_ret'[s].kind # "pending")
              => pi_ret'[s] = NoneRet]_vars

\* C10: once the channel is closed no recv blocks: a recv found at its wait
\* has its wake signal set, a recv that tests its loop condition goes
\* straight to its return, and a recv returning with no byte buffered
\* returns the empty end-of-stream value.
C10_RecvNeverBlocksAfterClose ==
    [][\A s \in Sids :
          /\ (~active'[s] /\ lpc'[s] = "r_wait") => input_event'[s]
          /\ (~active[s] /\ lpc[s] = "r_while") => lpc'[s] \in {"r_while", "r_return"}
          /\ (~active[s] /\ lpc[s] = "r_return" /\ lpc'[s] # "r_return"
                /\ recv_buffer[s] = <<>>) => recv_ret'[s] = <<>>]_vars

\* C10 witness: the channel is closed while a recv is at its wait.
C10_Witness ==
    \E s \in Sids : ~active[s] /\ lpc[s] = "r_wait"

\* The bytes a session still has to hand to its readers: what recv has
\* buffered, then the encodings of the queued fragments in queue order.
RECURSIVE EncodeAll(_)
EncodeAll(q) ==
    IF q = <<>> THEN <<>> ELSE EncodeStr(Head(q)) \o EncodeAll(Tail(q))

Unread(s) == recv_buffer[s] \o EncodeAll(input_queue[s])

\* C11: recv hands the enqueued bytes on in order, without loss or
\* duplication: an input event appends its encoding to the unread bytes, a
\* returning recv(n) takes at most n bytes off their front and returns
\* exactly those, and no other step changes them.
C11_RecvPreservesStream ==
    [][\A s \in Sids :
          /\ \A d \in InputFragments :
                handle_client_input(s, d)
                   => Unread(s)' = IF s \in Keys(client_states)
                                   THEN Unread(s) \o EncodeStr(d)
                                   ELSE Unread(s)
          /\ RecvReturn(s)
                => /\ Len(recv_ret'[s]) <= recv_n[s]
                   /\ Unread(s) = recv_ret'[s] \o Unread(s)'
          /\ ~(\E d \in InputFragments : handle_client_input(s, d))
               /\ ~RecvReturn(s)
                => Unread(s)' = Unread(s)]_vars

\* C11 witness: a recv(1) has returned one byte of a longer input and the
\* rest is still unread.
C11_Witness ==
    \E s \in Sids : /\ lpc[s] = "main" /\ recv_caller[s] = "logic"
                    /\ recv_n[s] = 1 /\ Len(recv_ret[s]) = 1
                    /\ Len(Unread(s)) >= 2 /\ active[s]

\* C13: recv(n) does not stay blocked while it holds bytes: an active
\* channel's recv found at its wait has nothing buffered.
C13_RecvReturnsPartial ==
    \A s \in Sids :
        (lpc[s] = "r_wait" /\ active[s]) => recv_buffer[s] = <<>>

\* C15: when a connect found a registered session of its username, then at
\* the step that registers the new session the old one is out of the
\* registry and its channel is closed.
C15_EvictedBeforeAdmit ==
    [][\A c \in Sids :
          (ConnectInsert(c) /\ sid_to_disconnect[c] # None)
              => (/\ sid_to_disconnect[c] \notin Keys(client_states')
                  /\ ~active'[sid_to_disconnect[c]])]_vars

\* C12: after settimeout(d) with a finite d, a recv that finds no input
\* within d signals a timeout: no recv is still in its wait once the
\* timeout set on the channel has run out.
C12_RecvTimesOut ==
    \A s \in Sids :
        ~(lpc[s] = "r_wait" /\ chan_timeout[s] # None /\ waited[s]
            /\ active[s])

\* C14: process_multiline_input returns only the payload of a multi-line
\* submit event or, after its 300 seconds, None: it never raises and never
\* returns anything else.
C14_MultilineReturnsPayload ==
    [][\A s \in Sids :
          (lpc[s] = "ml_wait" /\ lpc'[s] # "ml_wait")
              => \/ ml_ret'[s] \in {StrRet(m) : m \in MultilinePayloads}
                 \/ (ml_ret'[s] = NoneRet /\ MultilineTimeout(s))]_vars

\* What was emitted, as one text, and how a log splits into what it holds.
RECURSIVE ConcatAll(_)
ConcatAll(q) == IF q = <<>> THEN <<>> ELSE Head(q) \o ConcatAll(Tail(q))

EmitsOf(log) == SelectSeq(log, LAMBDA e : e.kind = "emit")

RECURSIVE EmittedText(_)
EmittedText(log) ==
    IF log = <<>> THEN <<>>
    ELSE (IF Head(log).kind = "emit" THEN Head(log).data ELSE <<>>)
            \o EmittedText(Tail(log))

IsPrefix(a, b) == Len(a) <= Len(b) /\ SubSeq(b, 1, Len(a)) = a

\* The log of the fragment in hand, and of the paced run in hand.
FragLog(s) == SubSeq(wire[s], frag_start[s] + 1, Len(wire[s]))
RunLog(s) == SubSeq(wire[s], run_start[s] + 1, Len(wire[s]))

\* The Sender Task has handled every part of the fragment it took.
FragmentDone(s) == spc[s] = "part" /\ parts[s] = <<>>

\* The paced loop over the run in hand has emitted its last character and
\* come back to its loop test.
RunDone(s) == spc[s] = "char" /\ part_rest[s] = <<>>

\* A text that is one complete control sequence, and the complete control
\* sequences of a fragment, leftmost first.
IsControlSeq(p) == p # <<>> /\ MatchLen(p, 1) = Len(p)

RECURSIVE ControlsFrom(_, _)
ControlsFrom(f, i) ==
    IF i > Len(f) THEN <<>>
    ELSE IF MatchLen(f, i) > 0
         THEN <<SubSeq(f, i, i + MatchLen(f, i) - 1)>>
                 \o ControlsFrom(f, i + MatchLen(f, i))
         ELSE ControlsFrom(f, i + 1)

HoldsControl(p) == \E i \in 1 .. Len(p) : MatchLen(p, i) > 0

\* C16: while the session is not being torn down, what the Sender Task has
\* emitted is, character for character, a prefix of the fragments in the
\* order of their send calls, and it is all of them once the outbox is
\* drained.
C16_SenderKeepsOrder ==
    \A s \in Sids :
        ~stop_worker_event[s]
            => /\ IsPrefix(EmittedText(wire[s]), ConcatAll(sent_log[s]))
               /\ (spc[s] = "top" /\ output_queue[s] = <<>>)
                     => EmittedText(wire[s]) = ConcatAll(sent_log[s])

\* C16 witness: two fragments were sent, a paced one among them, and both
\* are out.
C16_Witness ==
    \E s \in Sids :
        /\ ~stop_worker_event[s] /\ spc[s] = "top"
        /\ output_queue[s] = <<>> /\ Len(sent_log[s]) = 2
        /\ sent_log[s][1] # sent_log[s][2]
        /\ \E i \in DOMAIN wire[s] : wire[s][i].kind = "sleep"

\* C17: when a fragment has been handled, its complete control sequences
\* are exactly the emits that are control sequences, in order and one emit
\* each; no other emit holds a complete control sequence; and no pacing
\* sleep follows the emit of a control sequence.
C17_ControlsAtomic ==
    \A s \in Sids :
        FragmentDone(s)
            => LET log == FragLog(s)
                   em == EmitsOf(log)
               IN /\ SelectSeq(em, LAMBDA e : IsControlSeq(e.data))
                        = [i \in DOMAIN ControlsFrom(text_to_send[s], 1) |->
                              Emit(ControlsFrom(text_to_send[s], 1)[i])]
                  /\ \A i \in DOMAIN em :
                        ~IsControlSeq(em[i].data) => ~HoldsControl(em[i].data)
                  /\ \A i \in 1 .. Len(log) - 1 :
                        (log[i].kind = "emit" /\ IsControlSeq(log[i].data))
                            => log[i + 1].kind = "emit"

\* C17 witness: a fragment with a control sequence between two texts has
\* been handled at a non-zero delay.
C17_Witness ==
    \E s \in Sids :
        /\ FragmentDone(s) /\ bps_delay[s] > 0
        /\ text_to_send[s] = <<"a", "CSI", "d", "h", "b">>
        /\ Len(FragLog(s)) = 5

\* The log of a run of which the first j characters are out, each emit
\* followed by a pacing sleep, the last one only if slept is true.
PacedShape(log, run, j, slept) ==
    /\ Len(log) = IF slept \/ j = 0 THEN 2 * j ELSE 2 * j - 1
    /\ \A i \in 1 .. j : log[2 * i - 1] = Emit(<<run[i]>>)
    /\ \A i \in 1 .. Len(log) : i % 2 = 0 => log[i].kind = "sleep"

\* C18: a plain-text run met at delay zero goes out as one emit of the
\* whole run; a run met at a non-zero delay goes out one character per
\* emit, in order, with a pacing sleep of the delay configured at that
\* moment between consecutive characters.
C18_PlainRunPacing ==
    [][\A s \in Sids :
          /\ (/\ SenderPart(s) /\ parts[s] # <<>>
              /\ Head(parts[s]) # <<>> /\ ~IsControlSeq(Head(parts[s])))
                => IF bps_delay[s] = 0
                   THEN wire'[s] = Append(wire[s], Emit(Head(parts[s])))
                   ELSE /\ wire'[s] = wire[s]
                        /\ spc'[s] = "char"
                        /\ part_rest'[s] = Head(parts[s])
          /\ SenderSleep(s) => wire'[s] = Append(wire[s], Sleep(bps_delay[s]))
          /\ spc'[s] \in {"char", "sleep"}
                => PacedShape(RunLog(s)', part'[s],
                              Len(part'[s]) - Len(part_rest'[s]),
                              spc'[s] = "char")]_vars

\* C18 witness: a run of two characters has gone out paced.
C18_Witness ==
    \E s \in Sids : /\ RunDone(s) /\ ~stop_worker_event[s]
                    /\ Len(part[s]) = 2 /\ Len(RunLog(s)) = 4

NumSleeps(log) == Len(SelectSeq(log, LAMBDA e : e.kind = "sleep"))

\* C19: a paced run of k characters that has gone out whole incurred k - 1
\* pacing sleeps: none follows its last character.
C19_SleepsBetweenOnly ==
    \A s \in Sids :
        RunDone(s) => NumSleeps(RunLog(s)) = Len(part[s]) - 1

\* C20: for a fragment handled to its end with no teardown, the emits
\* concatenated are the fragment.
C20_NothingLost ==
    \A s \in Sids :
        (FragmentDone(s) /\ ~stop_worker_event[s])
            => EmittedText(FragLog(s)) = text_to_send[s]

\* C20 witness: a fragment ending in an unterminated control sequence has
\* been handled at a non-zero delay.
C20_Witness ==
    \E s \in Sids :
        /\ FragmentDone(s) /\ ~stop_worker_event[s] /\ bps_delay[s] > 0
        /\ text_to_send[s] = <<"a", "OSC", "b">>
        /\ EmittedText(FragLog(s)) = <<"a", "OSC", "b">>

\* The number of the fragment the Sender Task has in hand, among those
\* handed to send.
InHand(s) == Len(sent_log[s]) - Len(output_queue[s])

\* C21: a fragment is paced by the delay that was in force when it was
\* queued, whatever the speed was set to afterwards: each pacing sleep of
\* the fragment in hand has that delay, and when that delay is not zero
\* each emit of its plain text is one character.
C21_SpeedChangeSparesQueued ==
    \A s \in Sids :
        spc[s] \in {"part", "char", "sleep"}
            => LET d == sent_ctx[s][InHand(s)].delay
                   log == FragLog(s)
               IN \A i \in DOMAIN log :
                     /\ log[i].kind = "sleep" => (d > 0 /\ log[i].delay = d)
                     /\ (log[i].kind = "emit" /\ d > 0
                           /\ ~IsControlSeq(log[i].data))
                          => Len(log[i].data) = 1

\* The Sender Task's own steps still to come, at most, once the teardown
\* flag is set.
StepsLeft(s) ==
    CASE spc[s] \in {"exited", "crashed"} -> 0
      [] spc[s] = "top" -> 1
      [] spc[s] = "part" -> 2 * Len(parts[s]) + 2
      [] spc[s] = "char" -> 2 * Len(parts[s]) + 3
      [] spc[s] = "sleep" -> 2 * Len(parts[s]) + 4

\* The Sender Task has met the teardown flag set: it broke off a paced
\* run, or it left its loop.
SawStop(s) ==
    \/ spc[s] = "exited"
    \/ (spc[s] \in {"part", "top"} /\ part_rest[s] # <<>>)

\* C22: once stop_worker has been called every step of the Sender Task
\* brings its end nearer, the outbox and the run in hand notwithstanding,
\* and once it has met the flag set it emits no plain text.
C22_SenderStopsPromptly ==
    [][\A s \in Sids :
          /\ (/\ stop_worker_event[s]
              /\ <<spc[s], parts[s], part_rest[s], wire[s]>>'
                    # <<spc[s], parts[s], part_rest[s], wire[s]>>)
                => StepsLeft(s)' < StepsLeft(s)
          /\ (SawStop(s) /\ wire'[s] # wire[s])
                => IsControlSeq(wire'[s][Len(wire'[s])].data)]_vars

\* C23: a fragment handed to send on an inactive channel is never taken by
\* the Sender Task: it stays in the outbox, where send put it.
C23_SendAfterCloseDropped ==
    \A s \in Sids : \A k \in DOMAIN sent_ctx[s] :
        ~sent_ctx[s][k].active
            => /\ k > InHand(s)
               /\ output_queue[s][k - InHand(s)] = sent_log[s][k]

\* C23 witness: a fragment was sent before the channel closed and one
\* after, and the Sender Task has left its loop.
C23_Witness ==
    \E s \in Sids :
        /\ Len(sent_ctx[s]) = 2
        /\ sent_ctx[s][1].active /\ ~sent_ctx[s][2].active
        /\ spc[s] = "exited"

\* C30: when an emit of the Sender Task raises a transport error, the
\* session is torn down there and then: its channel is closed, the wake
\* signal is set and the teardown flag is set.
C30_EmitErrorTearsDown ==
    [][\A s \in Sids :
          SenderEmitRaises(s)
              => (~active'[s] /\ input_event'[s] /\ stop_worker_event'[s])
      ]_vars

Untouched(t) ==
    /\ <<active[t], main_thread_active[t], input_event[t],
          stop_worker_event[t]>>'
          = <<active[t], main_thread_active[t], input_event[t],
              stop_worker_event[t]>>
    /\ <<input_queue[t], output_queue[t], recv_buffer[t]>>'
          = <<input_queue[t], output_queue[t], recv_buffer[t]>>
    /\ <<lpc[t], spc[t], bps_delay[t], transport[t], dpc[t]>>'
          = <<lpc[t], spc[t], bps_delay[t], transport[t], dpc[t]>>

\* C29: an exception in a session's Logic Task ends in that task: the
\* channel is closed and its reader woken, the Sender Task is told to stop,
\* the task is over; the registry and the admission counter are as they
\* were, and so is every other session.
C29_LogicErrorStaysLocal ==
    [][\A s \in Sids :
          LogicRaise(s)
              => (/\ ~active'[s] /\ input_event'[s]
                  /\ stop_worker_event'[s] /\ ~main_thread_active'[s]
                  /\ lpc'[s] = "exited"
                  /\ client_states' = client_states
                  /\ current_webapp_clients' = current_webapp_clients
                  /\ \A t \in Sids \ {s} : Untouched(t))]_vars

\* C29 witness: one session's Logic Task has ended on an exception, with
\* no disconnect, beside a registered, active session with input queued.
C29_Witness ==
    \E s, t \in Sids :
        /\ s # t
        /\ lpc[s] = "exited" /\ dpc[s] = "idle" /\ ~active[s]
        /\ t \in Keys(client_states) /\ active[t] /\ lpc[t] = "main"
        /\ input_queue[t] # <<>>

\* What the client of s has sent so far, the number of bytes recv has
\* handed to its reader, and those bytes as characters.
Delivered(s) == ConcatAll(SubSeq(typed, 1, n_inputs[s]))

Consumed(s) == Len(EncodeStr(Delivered(s))) - Len(Unread(s))

ConsumedChars(s) ==
    DecodeIgnore(SubSeq(EncodeStr(Delivered(s)), 1, Consumed(s)))

IsEnd(ch) == ch \in {"CR", "LF"}

IsErase(ch) == ch \in {"BS", "DEL"}

\* Of characters that end in a terminator: those after the terminator
\* before it, the last one left out.
LastLine(chars) ==
    LET n == Len(chars)
        ends == {i \in 1 .. n - 1 : IsEnd(chars[i])}
        from == IF ends = {} THEN 1
                ELSE 1 + CHOOSE i \in ends : \A j \in ends : j <= i
    IN SubSeq(chars, from, n - 1)

\* The line a sequence of keystrokes makes: an erasure takes the last
\* character left, if there is one.
RECURSIVE EditFrom(_, _)
EditFrom(keys, line) ==
    IF keys = <<>> THEN line
    ELSE IF IsErase(Head(keys))
         THEN EditFrom(Tail(keys), SubSeq(line, 1, Len(line) - 1))
         ELSE EditFrom(Tail(keys), Append(line, Head(keys)))

EditLine(keys) == EditFrom(keys, <<>>)

\* C24: on a channel that stays open, a line read that returns a string
\* has read up to a terminator, and the string is the line its keystrokes
\* since the terminator before make,
\* each erasure taking the last character left, the terminator left out;
\* an erasure on an empty line changes nothing and echoes nothing.
C24_LineIsEditedInput ==
    [][\A s \in Sids :
          /\ ProcessInputFinal(s)
                => LET chars == ConsumedChars(s)
                   IN /\ chars # <<>>
                      /\ IsEnd(chars[Len(chars)])
                      /\ pi_ret'[s] = StrRet(EditLine(LastLine(chars)))
          /\ (/\ ProcessInputChar(s)
              /\ recv_ret[s] # <<>>
              /\ IsErase(recv_ret[s][1])
              /\ line_buffer[s] = <<>>)
                => (/\ line_buffer'[s] = <<>>
                    /\ output_queue'[s] = output_queue[s])]_vars

\* C24 witness: a line typed with an erased wide character and an erasure
\* on the empty line has been returned.
C24_Witness ==
    \E s \in Sids :
        /\ lpc[s] = "main"
        /\ pi_ret[s] = StrRet(<<"a">>)
        /\ ConsumedChars(s) = <<"W", "BS", "BS", "a", "CR">>

\* The erase sequence for w columns, as the outbox holds it.
EraseText(w) == Repeat("BS", w) \o Repeat("SP", w) \o Repeat("BS", w)

\* C25: with echo on, an erasure that removes a character puts into the
\* outbox w backspaces, w spaces and w backspaces, w being 2 for an East
\* Asian wide (or fullwidth) character and 1 for every other.
C25_EraseMatchesWidth ==
    [][\A s \in Sids :
          (/\ ProcessInputChar(s)
           /\ echo[s]
           /\ recv_ret[s] # <<>>
           /\ IsErase(recv_ret[s][1])
           /\ line_buffer[s] # <<>>)
              => LET removed == line_buffer[s][Len(line_buffer[s])]
                     w == IF east_asian_width(removed) \in {"W", "F"}
                          THEN 2 ELSE 1
                 IN /\ line_buffer'[s]
                         = SubSeq(line_buffer[s], 1, Len(line_buffer[s]) - 1)
                    /\ output_queue'[s]
                         = Append(output_queue[s], EraseText(w))]_vars

\* C26: the hiding reader puts nothing into its outbox, and at the same
\* point of the same input it has what the echoing reader has: the same
\* value returned, and in a read that waits for more the same line so far.
C26_HideReadsTheSameLine ==
    /\ output_queue[HideSid] = <<>>
    /\ Consumed(EchoSid) = Consumed(HideSid)
          => /\ (/\ lpc[EchoSid] = "main" /\ lpc[HideSid] = "main"
                 /\ pi_ret[HideSid] # Pending)
                   => pi_ret[HideSid] = pi_ret[EchoSid]
             /\ (lpc[EchoSid] = "r_wait" /\ lpc[HideSid] = "r_wait")
                   => /\ line_buffer[HideSid] = line_buffer[EchoSid]
                      /\ decoder[HideSid] = decoder[EchoSid]

\* C26 witness: both readers have returned the same second line of the
\* input, one with an erasure, and the echoing one has echoed.
C26_Witness ==
    /\ lpc[EchoSid] = "main" /\ lpc[HideSid] = "main"
    /\ pi_ret[HideSid] = StrRet(<<"a">>)
    /\ Consumed(HideSid) = 8
    /\ Consumed(EchoSid) = 8
    /\ Len(output_queue[EchoSid]) = 6
    /\ ~echo[HideSid] /\ echo[EchoSid]

\* The characters a client's text is made of.
TextChars == {"a", "W", "alpha"}

\* C27: a byte that is no terminator and no erasure either completes a
\* character with the bytes buffered before it, and then that character is
\* appended to the line once and, with echo on, echoed once, whole; or it
\* is buffered with them, and then the line and the outbox are as they
\* were and no byte is lost.
C27_SplitCharBuffered ==
    [][\A s \in Sids :
          (/\ ProcessInputChar(s)
           /\ recv_ret[s] # <<>>
           /\ ~IsEnd(recv_ret[s][1]) /\ ~IsErase(recv_ret[s][1]))
              => LET seen == decoder[s] \o recv_ret[s]
                     whole == {c \in TextChars : encode_utf8(c) = seen}
                 IN IF whole # {}
                    THEN LET c == CHOOSE c \in whole : TRUE
                         IN /\ line_buffer'[s] = Append(line_buffer[s], c)
                            /\ decoder'[s] = <<>>
                            /\ output_queue'[s] =
                                  IF echo[s]
                                  THEN Append(output_queue[s], <<c>>)
                                  ELSE output_queue[s]
                    ELSE /\ line_buffer'[s] = line_buffer[s]
                         /\ decoder'[s] = seen
                         /\ output_queue'[s] = output_queue[s]]_vars

\* C27 witness: the third byte of a wide character has been read, after
\* two reads that buffered the first two, and the character is in the
\* line and in the outbox.
C27_Witness ==
    \E s \in Sids :
        /\ lpc[s] = "pi_while" /\ echo[s]
        /\ recv_ret[s] = <<"82">> /\ decoder[s] = <<>>
        /\ line_buffer[s] = <<"a", "W">>
        /\ output_queue[s] = << <<"a">>, <<"W">> >>

\* C31: a connect whose username is GUEST in any letter case evicts nobody:
\* its duplicate search finds no sid, sends no notice and disconnects no
\* transport; and at the ceiling test it is rejected, and never inserted,
\* when the ceiling is non-zero and the counter has reached it.
C31_GuestNeverEvicts ==
    [][\A c \in Sids :
          Upper(session_username[c]) = "GUEST"
              => (/\ ConnectDuplicateCheck(c)
                        => (/\ sid_to_disconnect'[c] = None
                            /\ cpc'[c] = "lock"
                            /\ UNCHANGED <<force_disconnect, transport, dpc>>)
                  /\ (ConnectCheck(c)
                        /\ max_clients > 0
                        /\ current_webapp_clients >= max_clients)
                        => (/\ cpc'[c] = "rejected"
                            /\ UNCHANGED <<client_states,
                                           current_webapp_clients>>))]_vars

\* C31 witness: two guest sessions are registered at the same time, and
\* neither was sent a notice.
C31_Witness ==
    \E a, b \in Keys(client_states) :
        /\ a # b
        /\ session_username[a] = "Guest" /\ session_username[b] = "Guest"
        /\ transport[a] = "open" /\ transport[b] = "open"
        /\ force_disconnect[a] = 0 /\ force_disconnect[b] = 0

ListedSids(m) == {m.list[i].sid : i \in DOMAIN m.list}

\* C33: the listing a call returns has one entry for exactly each session
\* that is in the registry at that moment and carries a username, each with
\* that session's id and username; and no later step of the registry, an
\* admission or a removal, changes a listing that was returned.
C33_ListingIsSnapshot ==
    [][/\ members'.called /\ members' # members
            => (/\ \A s \in Sids :
                      (s \in ListedSids(members'))
                          <=> (/\ \E i \in DOMAIN client_states :
                                     client_states[i] = s
                               /\ session_username[s] # "")
                /\ Len(members'.list) = Cardinality(ListedSids(members'))
                /\ \A i \in DOMAIN members'.list :
                      members'.list[i].username
                          = session_username[members'.list[i].sid]
                /\ client_states' = client_states)
       /\ client_states' # client_states => members' = members
      ]_vars

\* C33 witness: a listing of two sessions was returned; one of them has
\* been removed since and the listing still names both.
C33_Witness ==
    /\ members.called
    /\ Len(members.list) = 2
    /\ \E i \in DOMAIN members.list :
          /\ members.list[i].sid \notin Keys(client_states)
          /\ dpc[members.list[i].sid] = "done"
    /\ Len(client_states) = 1

\* The Logic Task of s is blocked in recv; its Sender Task is in a pacing
\* sleep or inside a paced run.
BlockedInRecv(s) == lpc[s] = "r_wait" /\ ~input_event[s]
InPacedRun(s) == spc[s] \in {"sleep", "char"}

\* What the tasks of t need, of t's own state alone, for their next step: a
\* Logic Task inside recv that is not waiting for t's own wake signal, a
\* Sender Task that has a fragment in hand, or one to take, or was told to
\* stop.
LogicReady(t) ==
    \/ lpc[t] \in {"r_while", "r_queue", "r_clear", "r_active", "r_pop",
                   "r_return"}
    \/ lpc[t] = "r_wait" /\ input_event[t]
SenderReady(t) ==
    \/ spc[t] \in {"part", "char", "sleep"}
    \/ spc[t] = "top" /\ (stop_worker_event[t] \/ output_queue[t] # <<>>)

\* C34: while the Logic Task of one session is blocked in recv, or its
\* Sender Task is in a pacing sleep or inside a paced run, the tasks of
\* every other session can take their next step whenever their own state
\* allows it, the disconnect handler of another session can take the
\* registry lock, and nobody holds that lock.
C34_NoSessionStallsAnother ==
    \A s, t \in PairSids :
        (s # t /\ (BlockedInRecv(s) \/ InPacedRun(s)))
            => (/\ LogicReady(t) => ENABLED LogicStep(t)
                /\ SenderReady(t) => ENABLED SenderStep(t)
                /\ dpc[t] = "dec" => ENABLED DisconnectDecrement(t)
                /\ lock_holder = None)

\* C34 witness: the first session is blocked in recv and in a pacing sleep
\* of a run of two characters, and meanwhile the second session's recv has
\* returned a byte and its Sender Task has emitted its fragment.
C34_Witness ==
    /\ BlockedInRecv(WaitSid) /\ spc[WaitSid] = "sleep"
    /\ part_rest[WaitSid] = <<"b">>
    /\ recv_ret[ServedSid] = <<"a">>
    /\ Len(wire[ServedSid]) = 1 /\ spc[ServedSid] = "top"
    /\ Len(wire[WaitSid]) = 1

\* C35: no wake-up is lost.  A Logic Task blocked in recv has an empty
\* inbox; and with a Logic Task that keeps calling recv(1), whatever the
\* client has sent, in whatever interleaving with the steps of recv, is in
\* the end taken from the inbox and returned byte by byte: from any state
\* in which a fragment is queued or bytes are buffered, a state follows in
\* which the inbox and the receive buffer are empty.
C35_NoWakeupLost ==
    /\ [](BlockedInRecv(ChanSid) => input_queue[ChanSid] = <<>>)
    /\ (input_queue[ChanSid] # <<>> \/ recv_buffer[ChanSid] # <<>>)
          ~> (input_queue[ChanSid] = <<>> /\ recv_buffer[ChanSid] = <<>>)

\* C35 witness: recv was woken and is about to clear the wake signal when
\* a second fragment has been queued beside the first.
C35_Witness ==
    /\ lpc[ChanSid] = "r_clear"
    /\ input_event[ChanSid]
    /\ Len(input_queue[ChanSid]) = 2
    /\ active[ChanSid]

\* C36: with no teardown and a Sender Task that is scheduled fairly, every
\* fragment appended to the outbox is transmitted in full in the end: once
\* k fragments have been handed to send, a state follows in which the text
\* emitted begins with those k fragments, in their order.
C36_OutboxDrains ==
    \A k \in 1 .. MaxSends :
        (Len(sent_log[ChanSid]) >= k)
            ~> (/\ Len(sent_log[ChanSid]) >= k
                /\ IsPrefix(ConcatAll(SubSeq(sent_log[ChanSid], 1, k)),
                            EmittedText(wire[ChanSid])))

\* C36 witness: two fragments were sent, the first one paced, and both are
\* out in full; the Sender Task polls an empty outbox.
C36_Witness ==
    /\ Len(sent_log[ChanSid]) = 2
    /\ EmittedText(wire[ChanSid]) = ConcatAll(sent_log[ChanSid])
    /\ NumSleeps(wire[ChanSid]) >= 2
    /\ output_queue[ChanSid] = <<>> /\ spc[ChanSid] = "top"
    /\ ~stop_worker_event[ChanSid]

\* The last n entries of a sequence.
LastN(q, n) == SubSeq(q, Len(q) - n + 1, Len(q))

\* C37: while the capture is on, the capture buffer holds the fragments
\* handed to send since it was switched on, in the order of the calls, which
\* is the order of the outbox: the buffer is the end of the sequence of all
\* fragments sent, and the fragments that are both in the buffer and still
\* in the outbox are the same, in the same order; whichever of the two
\* producers made the calls.
C37_CaptureFollowsOutbox ==
    \A s \in Sids :
        is_logging[s]
            => LET n == Min(Len(log_buffer[s]), Len(output_queue[s])) IN
               /\ Len(log_buffer[s]) <= Len(sent_log[s])
               /\ log_buffer[s] = LastN(sent_log[s], Len(log_buffer[s]))
               /\ LastN(log_buffer[s], n) = LastN(output_queue[s], n)

\* C37 witness: with the capture on, the Logic Task and the notifier have
\* each sent a fragment, a different one, and both are in the capture
\* buffer and in the outbox.
C37_Witness ==
    /\ is_logging[ChanSid]
    /\ Len(log_buffer[ChanSid]) = 2
    /\ log_buffer[ChanSid][1] # log_buffer[ChanSid][2]
    /\ output_queue[ChanSid] = log_buffer[ChanSid]

\* C38: once the channel is closed, nothing is taken from the inbox any
\* more: it keeps what it held; and a recv that returns then returns the
\* first n bytes of the receive buffer, or all of it when it holds fewer,
\* and end-of-stream when the buffer is empty, whatever is in the inbox.
C38_BufferedYesQueuedNo ==
    [][\A s \in Sids :
          ~active[s]
              => (/\ IsPrefix(input_queue[s], input_queue'[s])
                  /\ recv_buffer'[s] # recv_buffer[s]
                        => IsPrefix(recv_ret'[s] \o recv_buffer'[s],
                                    recv_buffer[s])
                  /\ RecvReturn(s)
                        => (/\ recv_ret'[s] \o recv_buffer'[s]
                                  = recv_buffer[s]
                            /\ Len(recv_ret'[s])
                                  = Min(recv_n[s], Len(recv_buffer[s]))))
      ]_vars

\* C38 witness: the channel was closed with one byte buffered and one
\* fragment queued; a recv(2) after that returned the one buffered byte,
\* the receive buffer is empty and the fragment is still in the inbox.
C38_Witness ==
    /\ ~active[ChanSid] /\ dpc[ChanSid] = "done"
    /\ lpc[ChanSid] = "main"
    /\ recv_n[ChanSid] = 2 /\ recv_ret[ChanSid] = <<"CR">>
    /\ recv_buffer[ChanSid] = <<>>
    /\ input_queue[ChanSid] = << <<"a">> >>

\* C39: carriage return and linefeed each end a line on their own.  A read
\* that is handed either of them takes no further byte; a read that ends
\* at a linefeed whose predecessor in the input is a carriage return gives
\* the empty line; and a reader is blocked in recv only when all the client
\* has sent was read, so the read of a linefeed that has arrived with its
\* carriage return waits for nothing.
C39_CrThenLfIsTwoLines ==
    [][\A s \in Sids :
          /\ (/\ ProcessInputChar(s)
              /\ recv_ret[s] # <<>>
              /\ recv_ret[s][1] \in {"CR", "LF"})
                => (/\ lpc'[s] = "pi_final"
                    /\ line_buffer'[s] = line_buffer[s]
                    /\ recv_buffer'[s] = recv_buffer[s]
                    /\ input_queue'[s] = input_queue[s])
          /\ ProcessInputFinal(s)
                => LET chars == ConsumedChars(s)
                       n == Len(chars)
                   IN (n >= 2 /\ chars[n - 1] = "CR" /\ chars[n] = "LF")
                          => pi_ret'[s] = StrRet(<<>>)
          /\ (lpc'[s] = "r_wait" /\ ~input_event'[s])
                => (input_queue'[s] = <<>> /\ recv_buffer'[s] = <<>>)
      ]_vars

\* C39 witness: the client has sent "a", CR, LF in one event and nothing
\* after it; two reads have returned, the second one the empty line, having
\* read the linefeed.
C39_Witness ==
    /\ typed = << <<"a", "CR", "LF">> >>
    /\ n_inputs[EchoSid] = 1
    /\ ConsumedChars(EchoSid) = <<"a", "CR", "LF">>
    /\ lpc[EchoSid] = "main"
    /\ pi_ret[EchoSid] = StrRet(<<>>)

\* C40: a session's per-character delay is the table value of the profile
\* last set for it: 10/2400 s (4 units) for '2400', 0 for 'full', which is
\* also the initial profile, and 0 for a name the table does not hold; and
\* a set_speed event for a sid that is not in the registry changes neither
\* the delay nor the profile of any session, nor the registry, nor any
\* handler object.
C40_DelayFollowsProfile ==
    /\ [](\A s \in Sids :
            /\ speed[s] = "2400" => bps_delay[s] = 4
            /\ speed[s] # "2400" => bps_delay[s] = 0)
    /\ [][\A s \in Sids :
            (n_speeds'[s] # n_speeds[s] /\ s \notin Keys(client_states))
                => (/\ bps_delay' = bps_delay
                    /\ speed' = speed
                    /\ regVars' = regVars
                    /\ objVars' = objVars
                    /\ chanVars' = chanVars)]_vars

\* C40 witness: the client of a registered session has sent two set_speed
\* events, the last one naming a profile the table does not hold: the delay
\* is 0.
C40_Witness ==
    /\ ChanSid \in Keys(client_states)
    /\ n_speeds[ChanSid] = 2
    /\ speed[ChanSid] = "warp"
    /\ bps_delay[ChanSid] = 0

=============================================================================
